---- MODULE Spec2Model ----
(***************************************************************************)
(* Multi-strategy resolution pipeline of the DouYin parsing service        *)
(* (src/parsing_service): ParsingService.parse_video with its strategy     *)
(* chain, CacheManager over Redis, ProxyManager, MetricsCollector and the  *)
(* /parse, /batch_parse and /clear_cache endpoints.                        *)
(*                                                                         *)
(* Granularity: parse_video is a coroutine; its only suspension point is   *)
(* the await of a strategy (app.py:173).  Code between two suspension      *)
(* points is one action.  The coroutines of one batch interleave at the    *)
(* suspension points; HTTP requests are handled one after the other.  The  *)
(* rate limits of the endpoints (flask_limiter, app.py:44-48) are not      *)
(* modelled: no request is turned away with 429.                           *)
(*                                                                         *)
(* Beside the service: the ProxyManager used directly (SpecProxyManager),  *)
(* the shared PlaywrightStrategy, a coroutine per parse stepping from one  *)
(* await to the next (SpecPlaywright), and the client DouYinDownloaderV3   *)
(* (src/downloader_v3.py), whose download_video runs in the caller's       *)
(* thread (SpecDownload) or in the threads of download_batch's pool        *)
(* (SpecDownloadBatch), where `self.stats[k] += 1` is a read and a store.  *)
(* SpecDownloader mixes the two kinds of calls, SpecRoundRobin is a        *)
(* ProxyManager asked for proxies in round-robin only, and SpecAPIStrategy *)
(* is EnhancedAPIStrategy.download (src/apiproxy), a coroutine that can be *)
(* cancelled wherever it waits.                                            *)
(***************************************************************************)
EXTENDS Integers, Sequences, FiniteSets, TLC

\* ------------------------------------------------------------------ bounds
MaxRequests == 2      \* HTTP requests handled in one behaviour
MaxBatchCalls == 2    \* parse_video calls made for /batch_parse requests
MaxTicks == 1         \* advances of the clock
MaxProxyOps == 5      \* calls made to the ProxyManager directly, and waits between them
MaxWorkers == 2       \* results of a download_batch, and target paths
MaxDownloads == 3     \* sequential calls of download_video
MaxParses == 2        \* calls of PlaywrightStrategy.parse on the shared handler
MaxTasks == 1         \* calls of EnhancedAPIStrategy.download, one after the other
StartTime == 100      \* time.time() when the service starts

\* ------------------------------------------------------- program constants
CacheTTL == 3600          \* app.py:183  cache_manager.set(url, result, ttl=3600)
DefaultTTL == 3600        \* cache_manager.py:31
MaxBatchUrls == 10        \* app.py:368
ProxyCooldown == 1        \* proxy_manager.py:123
BlockDuration == 300      \* proxy_manager.py:174  block_duration
BlockThreshold == 3       \* proxy_manager.py:188  recent_failures >= 3
FailureWindow == 60       \* proxy_manager.py:195  window
FailureCap == 3           \* proxy_manager.py:214  min(stats['failure'], 3)

None == "None_"                 \* Python's None where a string is expected
PyNone == [py |-> "None"]       \* Python's None where a dictionary is expected
Urls == {"u1", "u2"}
ProxyPool == {"p1", "p2", "p3"}
TestedProxies == {"p1", "p2"}   \* the proxies of the ProxyManager used directly
ServiceProxies == {"p1"}        \* the proxies given to the parsing service

\* ---------------------------------------------------------------- strategies
\* Names of ParsingService._initialize_strategies, in list order, for the
\* environment switches ENABLE_PLAYWRIGHT / ENABLE_SELENIUM.
InitialStrategies(enable_playwright, enable_selenium) ==
    <<"api_with_signature">>
    \o (IF enable_playwright THEN <<"playwright">> ELSE <<>>)
    \o (IF enable_selenium THEN <<"selenium">> ELSE <<>>)
    \o <<"requests">>

StrategyNames == {"api_with_signature", "playwright", "selenium", "requests"}

\* _initialize_weights, in tenths (1.0, 0.8, 0.6, 0.4).
BaseWeight10(name) ==
    CASE name = "api_with_signature" -> 10
      [] name = "playwright" -> 8
      [] name = "selenium" -> 6
      [] name = "requests" -> 4
      [] OTHER -> 5

\* --------------------------------------------------------------- raw data
\* A media URL: the text contains 'playwm' (watermarked) or 'play'.
MediaUrl(wm, n) == [wm |-> wm, n |-> n]
EmptyStr == [wm |-> FALSE, n |-> 0]          \* the empty string ''
NoneStr == [wm |-> FALSE, n |-> -1]          \* the text 'None'

\* aweme detail objects the platform can answer with
VideoDetail(n) ==
    [aweme_id |-> n, images |-> <<>>, play_addr |-> <<MediaUrl(TRUE, n)>>]
ImageDetail(n) ==
    [aweme_id |-> n, images |-> <<[is_dict |-> TRUE, url_list |-> <<MediaUrl(FALSE, n)>>]>>,
     play_addr |-> <<>>]
RawData ==
    { [shape |-> "aweme_detail", detail |-> VideoDetail(1)],
      [shape |-> "aweme_detail", detail |-> VideoDetail(2)],
      [shape |-> "aweme_detail", detail |-> ImageDetail(1)],
      [shape |-> "other",        detail |-> PyNone] }

\* str.replace('playwm', 'play')
ReplacePlaywm(u) == [u EXCEPT !.wm = FALSE]

RECURSIVE ImageUrls(_)
ImageUrls(imgs) ==
    IF imgs = <<>> THEN <<>>
    ELSE LET img == Head(imgs)
             rest == ImageUrls(Tail(imgs))
         IN IF img.is_dict /\ img.url_list # <<>>
            THEN <<img.url_list[1]>> \o rest
            ELSE rest

AllKeys == {"video_id", "title", "author", "video_url", "is_image", "images"}

\* BaseStrategy.normalize_video_info initial dictionary
DefaultInfo ==
    [py |-> "dict", keys |-> AllKeys, video_id |-> 0, video_url |-> EmptyStr,
     is_image |-> FALSE, images |-> <<>>]

\* BaseStrategy._extract_from_aweme_detail merged into the defaults
ExtractFromAwemeDetail(detail) ==
    IF detail.images # <<>>
    THEN [DefaultInfo EXCEPT !.video_id = detail.aweme_id,
                             !.is_image = TRUE,
                             !.images = ImageUrls(detail.images)]
    ELSE IF detail.play_addr # <<>>
         THEN [DefaultInfo EXCEPT !.video_id = detail.aweme_id,
                                  !.video_url = ReplacePlaywm(detail.play_addr[1])]
         ELSE [DefaultInfo EXCEPT !.video_id = detail.aweme_id]

\* BaseStrategy.normalize_video_info
NormalizeVideoInfo(raw) ==
    IF raw.shape \in {"aweme_detail", "aweme_id"}
    THEN ExtractFromAwemeDetail(raw.detail)
    ELSE DefaultInfo          \* empty item_list, or an unknown structure

\* What awaiting handler.parse under asyncio.wait_for can end with: every
\* handler returns normalize_video_info(raw) or raises
\* (requests_strategy.py:54-61, playwright_strategy.py:86-109,
\* selenium_strategy.py:58-61), and wait_for can time out.
Outcomes ==
    { [kind |-> "raise", value |-> PyNone], [kind |-> "timeout", value |-> PyNone] }
    \cup { [kind |-> "return", value |-> NormalizeVideoInfo(raw)] : raw \in RawData }

\* Python truthiness of a strategy result (None or a non-empty dict)
Truthy(result) == result # PyNone

RequiredFields == {"video_id", "title", "author"}

\* ParsingService._validate_result
ValidateResult(result) ==
    IF ~Truthy(result) THEN FALSE
    ELSE IF ~(RequiredFields \subseteq result.keys) THEN FALSE
    ELSE IF "video_url" \in result.keys
            /\ (result.video_url = EmptyStr \/ result.video_url = NoneStr) THEN FALSE
    ELSE TRUE

\* Variant: the result is not validated before it is accepted.
AcceptsAnyResult(result) == Truthy(result)

\* app.py:178  `if result and self._validate_result(result)`
Accepts(result) == Truthy(result) /\ ValidateResult(result)

\* Variant: the test of force_refresh is inverted.
CacheHitInverted(cached_result, force_refresh) == Truthy(cached_result) /\ force_refresh

\* Variant: force_refresh is not looked at.
CacheHitIgnoresRefresh(cached_result, force_refresh) == Truthy(cached_result)

\* app.py:146  `if cached_result and not options.get('force_refresh', False)`
CacheHit(cached_result, force_refresh) == Truthy(cached_result) /\ ~force_refresh

\* The target paths of the download directory
Paths == 1..MaxWorkers

\* ------------------------------------------------------------------- state
VARIABLES
    strategies,        \* ParsingService.strategies: names in list order
    success_counts,    \* ParsingService.success_counts
    failure_counts,    \* ParsingService.failure_counts, in halves (2 = one failure)
    redis,             \* the Redis keys of the cache: url -> stored entry or PyNone
    cache_stats,       \* CacheManager.stats
    counters,          \* MetricsCollector.counters
    proxies,           \* ProxyManager.proxies
    proxy_stats,       \* ProxyManager.proxy_stats
    current_index,     \* ProxyManager.current_index
    now,               \* time.time()
    handled,           \* HTTP requests received so far, by endpoint
    requests,          \* the HTTP requests in flight, each with its parse_video
                       \* coroutines, and the ones answered since the last arrival
    proxy_log,         \* history: the calls made to the ProxyManager, with their times
    files,             \* the download directory: target path -> state of the file
    stats,             \* DouYinDownloaderV3.stats
    fetched,           \* history: the media fetches made (session.get), by target path
    workers,           \* the download_video calls: one per worker thread
    browser,           \* PlaywrightStrategy.browser
    playwright,        \* PlaywrightStrategy.playwright
    browsers,          \* the browser processes launched: "open" or "closed"
    parses,            \* the PlaywrightStrategy.parse coroutines
    tasks              \* the EnhancedAPIStrategy.download calls, each with its task

\* DouYinDownloaderV3 (downloader_v3.py) and the download directory
downloader_vars == <<files, stats, fetched, workers>>

\* The shared PlaywrightStrategy instance (playwright_strategy.py)
playwright_vars == <<browser, playwright, browsers, parses>>

\* What the endpoints of the parsing service never touch
outside_service == <<proxy_log, downloader_vars, playwright_vars, tasks>>

vars == <<strategies, success_counts, failure_counts, redis, cache_stats, counters,
          proxies, proxy_stats, current_index, now, handled, requests,
          proxy_log, downloader_vars, playwright_vars, tasks>>

RotationStrategy == "random"     \* ProxyManager.rotation_strategy

\* ----------------------------------------------------------- strategy order
RECURSIVE SeqToSet(_)
SeqToSet(s) == IF s = <<>> THEN {} ELSE {Head(s)} \cup SeqToSet(Tail(s))

\* The score without its floor: base_weight * success_rate
ScoreWithoutFloor(name, sc, fc) ==
    LET s == sc[name]
        f2 == fc[name]
    IN IF 2 * s + f2 > 0
       THEN [num |-> BaseWeight10(name) * (2 * s), den |-> 10 * (2 * s + f2)]
       ELSE [num |-> BaseWeight10(name), den |-> 10]

\* ParsingService._sort_strategies_by_weight: the dynamic weight of a strategy
\* as the fraction num/den.  With s successes and f = f2/2 failures,
\* base * (0.5 + s/(s+f) * 0.5) = base10 * (4s + f2) / (20 * (2s + f2)).
Score(name, sc, fc) ==
    LET s == sc[name]
        f2 == fc[name]
    IN IF 2 * s + f2 > 0
       THEN [num |-> BaseWeight10(name) * (4 * s + f2), den |-> 20 * (2 * s + f2)]
       ELSE [num |-> BaseWeight10(name), den |-> 10]

ScoreGE(a, b) == a.num * b.den >= b.num * a.den

\* Variant: sorted without reverse=True.
SortAscending(strats, sc, fc) ==
    { order \in [1..Len(strats) -> SeqToSet(strats)] :
        /\ SeqToSet(order) = SeqToSet(strats)
        /\ \A i \in 1..Len(order) - 1 :
              ScoreGE(Score(order[i + 1], sc, fc), Score(order[i], sc, fc)) }

\* sorted(..., key=score, reverse=True).  Scores that are equal as fractions
\* can differ in the last bit as floats (0.6 against 0.6000000000000001), so
\* strategies with equal exact scores come out in either order.
SortStrategiesByWeight(strats, sc, fc) ==
    { order \in [1..Len(strats) -> SeqToSet(strats)] :
        /\ SeqToSet(order) = SeqToSet(strats)
        /\ \A i \in 1..Len(order) - 1 :
              ScoreGE(Score(order[i], sc, fc), Score(order[i + 1], sc, fc)) }

\* ParsingService._record_success
RecordSuccessS(sc, name) == [sc EXCEPT ![name] = @ + 1]
RecordSuccessF(fc, name) == [fc EXCEPT ![name] = IF @ - 1 > 0 THEN @ - 1 ELSE 0]

\* ParsingService._record_failure
RecordFailure(fc, name) == [fc EXCEPT ![name] = @ + 2]

\* -------------------------------------------------------------------- cache
\* json.dumps / json.loads of a value
JsonDumps(v) == [py |-> "str", json |-> v]
JsonLoads(t) == t.json

\* redis.get on a server that never expires a key
RedisGetUnexpired(key) ==
    IF redis[key] # PyNone THEN redis[key].text ELSE PyNone

\* redis.get: an expired key is gone
RedisGet(key) ==
    IF redis[key] # PyNone /\ now < redis[key].expires THEN redis[key].text ELSE PyNone

\* CacheManager.get letting the Redis error through to its caller
CacheGetRaising(key, ok) ==
    IF ~ok THEN [ret |-> [py |-> "ConnectionError"], stats |-> cache_stats]
    ELSE LET value == RedisGet(key)
         IN IF value # PyNone
            THEN [ret |-> JsonLoads(value),
                  stats |-> [cache_stats EXCEPT !.hits = @ + 1]]
            ELSE [ret |-> PyNone,
                  stats |-> [cache_stats EXCEPT !.misses = @ + 1]]

\* CacheManager.get: [ret, stats]; ok = FALSE is a Redis error
CacheGet(key, ok) ==
    IF ~ok THEN [ret |-> PyNone, stats |-> cache_stats]
    ELSE LET value == RedisGet(key)
         IN IF value # PyNone
            THEN [ret |-> JsonLoads(value),
                  stats |-> [cache_stats EXCEPT !.hits = @ + 1]]
            ELSE [ret |-> PyNone,
                  stats |-> [cache_stats EXCEPT !.misses = @ + 1]]

\* CacheManager.set: [redis, stats]; ok = FALSE is a Redis error
CacheSet(key, value, ttl, ok) ==
    IF ~ok THEN [redis |-> redis, stats |-> cache_stats]
    ELSE LET t == IF ttl = 0 THEN DefaultTTL ELSE ttl
             cache_data == [py |-> "dict", value |-> value, cached_at |-> now, ttl |-> t]
         IN [redis |-> [redis EXCEPT ![key] =
                          [text |-> JsonDumps(cache_data), expires |-> now + t]],
             stats |-> [cache_stats EXCEPT !.sets = @ + 1]]

\* CacheManager.delete: [ret, redis, stats]; ok = FALSE is a Redis error
CacheDelete(key, ok) ==
    IF ok /\ RedisGet(key) # PyNone
    THEN [ret |-> TRUE, redis |-> [redis EXCEPT ![key] = PyNone],
          stats |-> [cache_stats EXCEPT !.deletes = @ + 1]]
    ELSE [ret |-> FALSE, redis |-> redis, stats |-> cache_stats]

\* CacheManager.exists; ok = FALSE is a Redis error
CacheExists(key, ok) == ok /\ RedisGet(key) # PyNone

\* CacheManager.clear() with no pattern, the number of keys removed
CacheCleared(ok) ==
    IF ok THEN Cardinality({u \in Urls : RedisGet(u) # PyNone}) ELSE 0

\* CacheManager.clear() with no pattern
CacheClear(ok) == IF ok THEN [u \in Urls |-> PyNone] ELSE redis

\* ------------------------------------------------------------------ proxies
DefaultProxyStats ==
    [success |-> 0, failure |-> 0, last_used |-> 0, last_success |-> 0,
     blocked |-> FALSE, block_until |-> 0]

\* _get_available_proxies lifting no block
NeverUnblocked(pstats) == pstats

\* ProxyManager._get_available_proxies: the statistics after lifting the
\* blocks that have run out
UnblockExpired(pstats) ==
    [p \in ProxyPool |->
        IF p \in SeqToSet(proxies) /\ pstats[p].blocked /\ now >= pstats[p].block_until
        THEN [pstats[p] EXCEPT !.blocked = FALSE, !.block_until = 0]
        ELSE pstats[p]]

\* _get_available_proxies without the one-second cooldown
AvailableIgnoringCooldown(pstats) ==
    LET Usable(p) == ~(pstats[p].blocked /\ now < pstats[p].block_until)
    IN SelectSeq(proxies, Usable)

\* ProxyManager._get_available_proxies: the list returned
AvailableProxies(pstats) ==
    LET Usable(p) == /\ ~(pstats[p].blocked /\ now < pstats[p].block_until)
                     /\ ~(now - pstats[p].last_used < ProxyCooldown)
    IN SelectSeq(proxies, Usable)

\* ProxyManager._get_weighted_proxy: the proxies random.choices can return, the
\* ones of weight > 0 (unused, or with a success), or any if all weigh 0
WeightedChoices(available, pstats) ==
    LET Weighs(q) == pstats[q].success + pstats[q].failure = 0 \/ pstats[q].success > 0
        positive == {q \in SeqToSet(available) : Weighs(q)}
    IN IF positive = {} THEN SeqToSet(available) ELSE positive

\* ProxyManager.get_proxy: the possible [proxy, stats, index] results
GetProxy(strategy) ==
    IF proxies = <<>>
    THEN { [proxy |-> None, stats |-> proxy_stats, index |-> current_index] }
    ELSE LET available == AvailableProxies(proxy_stats)
             st == UnblockExpired(proxy_stats)
             Used(p) == [st EXCEPT ![p].last_used = now]
         IN IF available = <<>>
            THEN { [proxy |-> None, stats |-> st, index |-> current_index] }
            ELSE IF strategy = "random"
            THEN { [proxy |-> available[i], stats |-> Used(available[i]),
                    index |-> current_index] : i \in 1..Len(available) }
            ELSE IF strategy = "weighted"
            THEN { [proxy |-> q, stats |-> Used(q), index |-> current_index] :
                      q \in WeightedChoices(available, proxy_stats) }
            ELSE IF strategy = "round-robin"
            THEN LET p == available[(current_index % Len(available)) + 1]
                 IN { [proxy |-> p, stats |-> Used(p), index |-> current_index + 1] }
            ELSE { [proxy |-> available[1], stats |-> Used(available[1]),
                    index |-> current_index] }

\* ProxyManager.add_proxy
AddProxy(p) ==
    /\ p \notin SeqToSet(proxies)
    /\ proxies' = Append(proxies, p)
    /\ UNCHANGED <<strategies, success_counts, failure_counts, redis, cache_stats,
                   counters, proxy_stats, current_index, now, handled, requests>>
    /\ UNCHANGED outside_service

\* ProxyManager.remove_proxy
RemoveProxy(p) ==
    /\ p \in SeqToSet(proxies)
    /\ proxies' = SelectSeq(proxies, LAMBDA q : q # p)
    /\ UNCHANGED <<strategies, success_counts, failure_counts, redis, cache_stats,
                   counters, proxy_stats, current_index, now, handled, requests>>
    /\ UNCHANGED outside_service

\* An entry of the history of the ProxyManager
LogEntry(op, proxy) == [op |-> op, proxy |-> proxy, at |-> now]

\* A call of ProxyManager.get_proxy(strategy)
GetProxyCall(strategy) ==
    /\ Len(proxy_log) < MaxProxyOps
    /\ \E got \in GetProxy(strategy) :
          /\ proxy_stats' = got.stats
          /\ current_index' = got.index
          /\ proxy_log' = Append(proxy_log, LogEntry("get_proxy", got.proxy))
    /\ UNCHANGED <<strategies, success_counts, failure_counts, redis, cache_stats,
                   counters, proxies, now, handled, requests>>
    /\ UNCHANGED <<downloader_vars, playwright_vars, tasks>>

\* ProxyManager.mark_success
MarkSuccess(proxy) ==
    /\ Len(proxy_log) < MaxProxyOps
    /\ proxy_stats' = [proxy_stats EXCEPT ![proxy].success = @ + 1,
                                          ![proxy].last_success = now]
    /\ proxy_log' = Append(proxy_log, LogEntry("mark_success", proxy))
    /\ UNCHANGED <<strategies, success_counts, failure_counts, redis, cache_stats,
                   counters, proxies, current_index, now, handled, requests>>
    /\ UNCHANGED <<downloader_vars, playwright_vars, tasks>>

\* ProxyManager._count_recent_failures, on the statistics st of a proxy
CountRecentFailures(st) ==
    IF st.last_success > now - FailureWindow THEN 1
    ELSE IF st.failure < FailureCap THEN st.failure ELSE FailureCap

\* ProxyManager.mark_failure
MarkFailure(proxy, block_duration) ==
    /\ Len(proxy_log) < MaxProxyOps
    /\ LET st == [proxy_stats[proxy] EXCEPT !.failure = @ + 1]
       IN proxy_stats' = [proxy_stats EXCEPT ![proxy] =
             IF CountRecentFailures(st) >= BlockThreshold
             THEN [st EXCEPT !.blocked = TRUE, !.block_until = now + block_duration]
             ELSE st]
    /\ proxy_log' = Append(proxy_log, LogEntry("mark_failure", proxy))
    /\ UNCHANGED <<strategies, success_counts, failure_counts, redis, cache_stats,
                   counters, proxies, current_index, now, handled, requests>>
    /\ UNCHANGED <<downloader_vars, playwright_vars, tasks>>

\* ProxyManager.get_stats: counting the available proxies lifts the blocks
\* that have run out
ProxyGetStats ==
    /\ proxy_stats' = UnblockExpired(proxy_stats)
    /\ UNCHANGED <<strategies, success_counts, failure_counts, redis, cache_stats,
                   counters, proxies, current_index, now, handled, requests>>
    /\ UNCHANGED outside_service

\* d seconds pass between two calls to the ProxyManager.
Elapse(d) ==
    /\ Len(proxy_log) < MaxProxyOps
    /\ now' = now + d
    /\ proxy_log' = Append(proxy_log, LogEntry("sleep", None))
    /\ UNCHANGED <<strategies, success_counts, failure_counts, redis, cache_stats,
                   counters, proxies, proxy_stats, current_index, handled, requests>>
    /\ UNCHANGED <<downloader_vars, playwright_vars, tasks>>

\* ------------------------------------------------------------ HTTP responses
Response(status, success, data, error, results) ==
    [status |-> status, success |-> success, data |-> data, error |-> error,
     results |-> results]

\* /parse: the response built from the end of parse_video (app.py:341-353)
ParseResponse(pc, ret) ==
    IF pc = "returned"
    THEN Response(200, "true", ret, PyNone, <<>>)
    ELSE Response(500, "false", PyNone, ret, <<>>)

NewCall(url, force_refresh, use_proxy) ==
    [url |-> url, force_refresh |-> force_refresh, use_proxy |-> use_proxy,
     pc |-> "pending", proxy |-> None, sorted |-> <<>>, idx |-> 0, executed |-> <<>>,
     result |-> PyNone, last_error |-> <<"None">>, ret |-> PyNone, hit |-> FALSE]

NewRequest(kind, body, cs) ==
    [kind |-> kind, body |-> body, calls |-> cs, response |-> PyNone]

\* The requests still in flight: an answered request leaves no state behind.
InFlight(rs) == SelectSeq(rs, LAMBDA q : q.response = PyNone)

\* A coroutine ends with a return value or an exception and its frame (result,
\* last_error) is gone; a /parse request answers in the same step
\* (app.py:341-353).
FinishCall(rs, r, k, c, pc, ret) ==
    LET done == [c EXCEPT !.pc = pc, !.ret = ret, !.result = PyNone,
                          !.last_error = <<"None">>]
    IN requests' = [rs EXCEPT ![r] =
          [@ EXCEPT !.calls = [@ EXCEPT ![k] = done],
                    !.response = IF rs[r].kind = "parse" THEN ParseResponse(pc, ret)
                                 ELSE @]]

\* ---------------------------------------------------------------- parse_video
\* app.py:141-176: from entry to the first await.  All strategies are enabled
\* (app.py:87-116), so the first strategy of the order is awaited.
BeginCall(rs, r, k, ok) ==
    LET c == rs[r].calls[k]
        got == CacheGet(c.url, ok)
    IN /\ cache_stats' = got.stats
       /\ IF CacheHit(got.ret, c.force_refresh)
          THEN /\ counters' = [counters EXCEPT !.cache_hits = @ + 1]
               /\ FinishCall(rs, r, k, [c EXCEPT !.hit = TRUE], "returned", got.ret)
               /\ UNCHANGED <<proxy_stats, current_index>>
          ELSE /\ \E got_proxy \in (IF c.use_proxy THEN GetProxy(RotationStrategy)
                                     ELSE { [proxy |-> None, stats |-> proxy_stats,
                                             index |-> current_index] }) :
                  \E order \in SortStrategiesByWeight(strategies, success_counts,
                                                      failure_counts) :
                     /\ proxy_stats' = got_proxy.stats
                     /\ current_index' = got_proxy.index
                     /\ requests' = [rs EXCEPT ![r].calls[k] =
                                       [c EXCEPT !.pc = "running",
                                                 !.proxy = got_proxy.proxy,
                                                 !.sorted = order, !.idx = 1,
                                                 !.executed = <<order[1]>>]]
               /\ UNCHANGED counters
       /\ UNCHANGED <<strategies, success_counts, failure_counts, redis, proxies, now>>

\* A task created by asyncio.gather starts: tasks start in creation order.
Begin(r, k, ok) ==
    /\ r \in 1..Len(requests)
    /\ k \in 1..Len(requests[r].calls)
    /\ requests[r].calls[k].pc = "pending"
    /\ \A j \in 1..(k - 1) : requests[r].calls[j].pc # "pending"
    /\ BeginCall(requests, r, k, ok)
    /\ UNCHANGED <<handled, outside_service>>

\* Variant: the loop walks self.strategies instead of the sorted list.
NextStrategyUnsorted(r, k, c, last_error) ==
    IF c.idx < Len(c.sorted)
    THEN /\ requests' = [requests EXCEPT ![r].calls[k] =
                           [c EXCEPT !.idx = @ + 1,
                                     !.executed = Append(@, strategies[c.idx + 1]),
                                     !.last_error = last_error]]
         /\ UNCHANGED counters
    ELSE /\ counters' = [counters EXCEPT !.total_failure = @ + 1]
         /\ FinishCall(requests, r, k, c, "raised",
                       <<"All strategies failed", last_error>>)

\* Variant: the first strategy that does not yield a record ends the call.
NextStrategyFailFast(r, k, c, last_error) ==
    /\ counters' = [counters EXCEPT !.total_failure = @ + 1]
    /\ FinishCall(requests, r, k, c, "raised", <<"All strategies failed", last_error>>)

\* Variant: the call that exhausts the chain raises without
\* metrics_collector.record_parse_failure().
NextStrategyUncounted(r, k, c, last_error) ==
    IF c.idx < Len(c.sorted)
    THEN /\ requests' = [requests EXCEPT ![r].calls[k] =
                           [c EXCEPT !.idx = @ + 1,
                                     !.executed = Append(@, c.sorted[c.idx + 1]),
                                     !.last_error = last_error]]
         /\ UNCHANGED counters
    ELSE /\ UNCHANGED counters
         /\ FinishCall(requests, r, k, c, "raised",
                       <<"All strategies failed", last_error>>)

\* app.py:161-204: the loop goes on to the next strategy, or ends.
NextStrategy(r, k, c, last_error) ==
    IF c.idx < Len(c.sorted)
    THEN /\ requests' = [requests EXCEPT ![r].calls[k] =
                           [c EXCEPT !.idx = @ + 1,
                                     !.executed = Append(@, c.sorted[c.idx + 1]),
                                     !.last_error = last_error]]
         /\ UNCHANGED counters
    ELSE /\ counters' = [counters EXCEPT !.total_failure = @ + 1]
         /\ FinishCall(requests, r, k, c, "raised",
                       <<"All strategies failed", last_error>>)

\* app.py:161-204: the awaited strategy ends with `outcome`; the coroutine runs
\* to its next await, its return or its raise.
StrategyDone(r, k, outcome, ok) ==
    /\ r \in 1..Len(requests)
    /\ k \in 1..Len(requests[r].calls)
    /\ requests[r].calls[k].pc = "running"
    \* every task of a gather reaches its first await before any I/O completes
    /\ \A j \in 1..Len(requests[r].calls) : requests[r].calls[j].pc # "pending"
    \* ok only matters where the cache is written: the other paths require it
    \* so that a step is described once
    /\ LET c0 == requests[r].calls[k]
           name == c0.sorted[c0.idx]
       IN /\ outcome \in Outcomes
          /\ LET c == [c0 EXCEPT !.result =
                          IF outcome.kind = "return" THEN outcome.value ELSE @]
             IN CASE outcome.kind = "return" /\ Accepts(outcome.value) ->
                     LET put == CacheSet(c.url, outcome.value, CacheTTL, ok)
                     IN /\ success_counts' = RecordSuccessS(success_counts, name)
                        /\ failure_counts' = RecordSuccessF(failure_counts, name)
                        /\ redis' = put.redis
                        /\ cache_stats' = put.stats
                        /\ counters' = [counters EXCEPT !.total_success = @ + 1]
                        /\ FinishCall(requests, r, k, c, "returned", outcome.value)
               [] outcome.kind = "return" /\ ~Accepts(outcome.value) ->
                     /\ ok
                     /\ NextStrategy(r, k, c, c.last_error)
                     /\ UNCHANGED <<success_counts, failure_counts, redis, cache_stats>>
               [] outcome.kind = "timeout" ->
                     /\ failure_counts' = RecordFailure(failure_counts, name)
                     /\ ok
                     /\ NextStrategy(r, k, c, <<"timed out", name>>)
                     /\ UNCHANGED <<success_counts, redis, cache_stats>>
               [] outcome.kind = "raise" ->
                     /\ failure_counts' = RecordFailure(failure_counts, name)
                     /\ ok
                     /\ NextStrategy(r, k, c, <<"error">>)
                     /\ UNCHANGED <<success_counts, redis, cache_stats>>
    /\ UNCHANGED <<strategies, proxies, proxy_stats, current_index, now, handled>>
    /\ UNCHANGED outside_service

\* ----------------------------------------------------------------- endpoints
JsonNull == [py |-> "None"]

\* JSON bodies of a /parse request: null, or an object whose 'url' is absent
\* (None), empty, or a URL.
ParseBodies(urls, use_proxy) ==
    {JsonNull} \cup
    { [py |-> "dict", url |-> u, use_proxy |-> FALSE, force_refresh |-> FALSE] :
        u \in {None, ""} } \cup
    { [py |-> "dict", url |-> u, use_proxy |-> up, force_refresh |-> fr] :
        u \in urls, up \in use_proxy, fr \in BOOLEAN }

\* POST /parse (app.py:321-353); ok = FALSE is a Redis error in the cache read
Parse(body, ok) ==
    /\ handled' = [handled EXCEPT !.parse = @ + 1]
    /\ LET rs == InFlight(requests)
           Refuse(status, success, error) ==
               /\ ok
               /\ requests' = Append(rs,
                     [NewRequest("parse", body, <<>>) EXCEPT !.response =
                        Response(status, success, PyNone, error, <<>>)])
               /\ UNCHANGED <<cache_stats, counters, proxy_stats, current_index>>
       IN IF body = JsonNull THEN Refuse(500, "false", <<"AttributeError">>)
          ELSE IF body.url \in {None, ""}
               THEN Refuse(400, "absent", <<"URL is required">>)
          ELSE BeginCall(Append(rs, NewRequest("parse", body,
                            <<NewCall(body.url, body.force_refresh, body.use_proxy)>>)),
                         Len(rs) + 1, 1, ok)
    /\ UNCHANGED <<strategies, success_counts, failure_counts, redis, proxies, now>>
    /\ UNCHANGED outside_service

\* JSON bodies of a /batch_parse request: null, or an object with a list of
\* URLs (absent = empty) of up to n entries, or of more than MaxBatchUrls
\* entries.
RECURSIVE SeqsUpTo(_, _)
SeqsUpTo(S, n) ==
    IF n = 0 THEN {<<>>}
    ELSE LET shorter == SeqsUpTo(S, n - 1)
         IN shorter \cup { Append(q, x) : q \in {t \in shorter : Len(t) = n - 1}, x \in S }

BatchBodies(urls, use_proxy, n) ==
    {JsonNull} \cup
    { [py |-> "dict", urls |-> us, use_proxy |-> up] :
        us \in SeqsUpTo(urls, n) \cup {[k \in 1..(MaxBatchUrls + 1) |-> "u1"]},
        up \in use_proxy }

\* The parse_video calls a /batch_parse request with this body makes
\* (app.py:362-378)
BatchCalls(body) ==
    IF body = JsonNull THEN 0
    ELSE IF Len(body.urls) > MaxBatchUrls THEN 0
    ELSE Len(body.urls)

\* POST /batch_parse up to asyncio.gather (app.py:356-380)
BatchParse(body) ==
    /\ handled' = [handled EXCEPT !.batch = @ + 1]
    /\ LET rs == InFlight(requests)
           Refuse(status, success, error) ==
               requests' = Append(rs,
                     [NewRequest("batch", body, <<>>) EXCEPT !.response =
                        Response(status, success, PyNone, error, <<>>)])
       IN IF body = JsonNull THEN Refuse(500, "false", <<"AttributeError">>)
          ELSE IF body.urls = <<>> THEN Refuse(400, "absent", <<"URLs are required">>)
          ELSE IF Len(body.urls) > MaxBatchUrls
               THEN Refuse(400, "absent", <<"Maximum 10 URLs per batch">>)
          ELSE requests' = Append(rs, NewRequest("batch", body,
                     [k \in 1..Len(body.urls) |->
                         NewCall(body.urls[k], FALSE, body.use_proxy)]))
    /\ UNCHANGED <<strategies, success_counts, failure_counts, redis, cache_stats,
                   counters, proxies, proxy_stats, current_index, now>>
    /\ UNCHANGED outside_service

\* One entry of 'results' (app.py:384-396)
BatchEntry(url, c) ==
    IF c.pc = "raised"
    THEN [url |-> url, success |-> FALSE, data |-> PyNone, error |-> c.ret]
    ELSE [url |-> url, success |-> TRUE, data |-> c.ret, error |-> PyNone]

\* Variant: only the URLs that were resolved get an entry.
BatchResultsSuccessOnly(urls, cs) ==
    LET ok == SelectSeq([k \in 1..Len(cs) |-> k], LAMBDA k : cs[k].pc # "raised")
    IN [i \in 1..Len(ok) |-> BatchEntry(urls[ok[i]], cs[ok[i]])]

\* 'results' of a batch (app.py:383-396)
BatchResults(urls, cs) == [k \in 1..Len(cs) |-> BatchEntry(urls[k], cs[k])]

\* POST /batch_parse after asyncio.gather (app.py:380-401)
BatchRespond(r) ==
    /\ r \in 1..Len(requests)
    /\ requests[r].kind = "batch"
    /\ requests[r].response = PyNone
    /\ \A k \in 1..Len(requests[r].calls) :
          requests[r].calls[k].pc \in {"returned", "raised"}
    /\ requests' = [requests EXCEPT ![r].response =
          Response(200, "true", PyNone, PyNone,
                   BatchResults(requests[r].body.urls, requests[r].calls))]
    /\ UNCHANGED <<strategies, success_counts, failure_counts, redis, cache_stats,
                   counters, proxies, proxy_stats, current_index, now, handled>>
    /\ UNCHANGED outside_service

\* POST /clear_cache (app.py:418-432); ok = FALSE is a Redis error
ClearCache(ok) ==
    /\ redis' = CacheClear(ok)
    /\ UNCHANGED <<strategies, success_counts, failure_counts, cache_stats, counters,
                   proxies, proxy_stats, current_index, now, handled, requests>>
    /\ UNCHANGED outside_service

\* The clock advances by d seconds.
Tick(d) ==
    /\ now' = now + d
    /\ UNCHANGED <<strategies, success_counts, failure_counts, redis, cache_stats,
                   counters, proxies, proxy_stats, current_index, handled, requests>>
    /\ UNCHANGED outside_service

\* --------------------------------------------------------------- downloader
\* DouYinDownloaderV3 (downloader_v3.py). A target file is "absent", "partial"
\* (opened for writing, not all chunks written) or "complete". The cover image
\* of a video is fetched after the counter is incremented, with every error
\* swallowed, into a file of its own: it is left out.
VideoKinds == {"video", "no_url", "image"}
Videos == { [kind |-> k, path |-> f] : k \in VideoKinds, f \in Paths }

\* The results of batch_parse: a failed parse, or the video record parsed
ParseFailed == [kind |-> "parse_failed", path |-> 0]
BatchVideos == { [kind |-> "video", path |-> f] : f \in Paths } \cup {ParseFailed}

NoVideo == [kind |-> "none", path |-> 0]

\* A thread of the downloader: the caller's thread or a worker of the pool,
\* running download_video(video). counter is the entry of self.stats it is
\* incrementing and tmp the value it has read from it. before (the directory,
\* the statistics and the fetches when download_video was entered), raised and
\* increments are history.
NewThread(thread, video, todo, pc) ==
    [thread |-> thread, video |-> video, todo |-> todo, pc |-> pc,
     counter |-> None, tmp |-> 0, ret |-> None, raised |-> None, increments |-> 0,
     before |-> [files |-> files, stats |-> stats, fetched |-> fetched]]

AllDone == \A i \in DOMAIN workers : workers[i].pc = "done"

\* filepath.exists() answering no, whatever the directory holds
FileNeverExists(path) == FALSE

\* filepath.exists()
FileExists(path) == files[path] # "absent"

\* the except branch without its cleanup
NotUnlinked(path) == files

\* if filepath.exists(): filepath.unlink()
Unlinked(path) == [files EXCEPT ![path] = "absent"]

service_vars == <<strategies, success_counts, failure_counts, redis, cache_stats, counters,
                  proxies, proxy_stats, current_index, now, handled, requests>>

\* download_video(video) is called, no other call being under way
DownloadVideo(video) ==
    /\ AllDone
    /\ Len(workers) < MaxDownloads
    /\ workers' = Append(workers, NewThread("caller", video, <<>>, "start"))
    /\ UNCHANGED <<files, stats, fetched>>
    /\ UNCHANGED <<service_vars, proxy_log, playwright_vars, tasks>>

\* download_from_url(url): parsed is what parse_video returned, a video record
\* or nothing (ParseFailed). The caller's thread counts the call in 'total' and
\* either counts a failure or enters download_video.
DownloadFromUrl(parsed) ==
    /\ AllDone
    /\ Len(workers) < MaxDownloads
    /\ IF parsed = ParseFailed
       THEN /\ stats' = [stats EXCEPT !.total = @ + 1, !.failed = @ + 1]
            /\ workers' = Append(workers,
                   [NewThread("caller", NoVideo, <<>>, "done") EXCEPT
                       !.ret = FALSE, !.increments = 1])
       ELSE /\ stats' = [stats EXCEPT !.total = @ + 1]
            /\ workers' = Append(workers,
                   [NewThread("caller", parsed, <<>>, "start") EXCEPT
                       !.before.stats = stats'])
    /\ UNCHANGED <<files, fetched>>
    /\ UNCHANGED <<service_vars, proxy_log, playwright_vars, tasks>>

\* download_batch(urls) is called: batch_parse has returned results
DownloadBatch(results) ==
    /\ AllDone
    /\ workers' = Append(workers, NewThread("main", NoVideo, results,
                            IF results = <<>> THEN "done" ELSE "submit"))
    /\ UNCHANGED <<files, stats, fetched>>
    /\ UNCHANGED <<service_vars, proxy_log, playwright_vars, tasks>>

\* download_batch, one turn of the loop over the results: a parsed video is
\* submitted to the pool, a failed parse is counted in 'failed'.
Submit(i) ==
    /\ i \in DOMAIN workers
    /\ workers[i].pc = "submit"
    /\ LET w == workers[i]
           result == Head(w.todo)
       IN IF w.todo = <<>>
          THEN workers' = [workers EXCEPT ![i].pc = "done"]
          ELSE IF result = ParseFailed
          THEN workers' = [workers EXCEPT ![i].todo = Tail(w.todo),
                                          ![i].counter = "failed", ![i].pc = "read"]
          ELSE workers' = Append([workers EXCEPT ![i].todo = Tail(w.todo)],
                                 NewThread("worker", result, <<>>, "start"))
    /\ UNCHANGED <<files, stats, fetched>>
    /\ UNCHANGED <<service_vars, proxy_log, playwright_vars, tasks>>

\* download_video up to the test of filepath.exists()
Start(i) ==
    /\ i \in DOMAIN workers
    /\ workers[i].pc = "start"
    /\ workers[i].video.kind \in {"video", "no_url"}
    /\ LET w == workers[i]
       IN IF w.video.kind = "no_url"
          THEN workers' = [workers EXCEPT ![i].ret = FALSE, ![i].pc = "done"]
          ELSE IF FileExists(w.video.path)
          THEN workers' = [workers EXCEPT ![i].counter = "skipped", ![i].ret = TRUE,
                                          ![i].pc = "read"]
          ELSE workers' = [workers EXCEPT ![i].pc = "fetch"]
    /\ UNCHANGED <<files, stats, fetched>>
    /\ UNCHANGED <<service_vars, proxy_log, playwright_vars, tasks>>

\* _download_images: got is "no_images" (the record lists none), "some" (at
\* least one image was saved) or "none" (every image failed)
DownloadImages(i, got) ==
    /\ i \in DOMAIN workers
    /\ workers[i].pc = "start"
    /\ workers[i].video.kind = "image"
    /\ workers' = IF got = "no_images"
                  THEN [workers EXCEPT ![i].ret = FALSE, ![i].pc = "done"]
                  ELSE [workers EXCEPT ![i].ret = (got = "some"),
                                       ![i].counter = IF got = "some" THEN "success"
                                                      ELSE "failed",
                                       ![i].pc = "read"]
    /\ UNCHANGED <<files, stats, fetched>>
    /\ UNCHANGED <<service_vars, proxy_log, playwright_vars, tasks>>

\* session.get, raise_for_status and open(filepath, 'wb'); ok = FALSE is an
\* exception before the file is opened
Fetch(i, ok) ==
    /\ i \in DOMAIN workers
    /\ workers[i].pc = "fetch"
    /\ LET path == workers[i].video.path
       IN /\ fetched' = [fetched EXCEPT ![path] = @ + 1]
          /\ IF ok
             THEN /\ files' = [files EXCEPT ![path] = "partial"]
                  /\ workers' = [workers EXCEPT ![i].pc = "write"]
             ELSE /\ files' = files
                  /\ workers' = [workers EXCEPT ![i].raised = "fetch",
                                                ![i].counter = "failed",
                                                ![i].ret = FALSE, ![i].pc = "read"]
    /\ UNCHANGED stats
    /\ UNCHANGED <<service_vars, proxy_log, playwright_vars, tasks>>

\* the loop writing the chunks; ok = FALSE is an exception on the way. A file
\* unlinked meanwhile by another thread stays absent.
Write(i, ok) ==
    /\ i \in DOMAIN workers
    /\ workers[i].pc = "write"
    /\ LET path == workers[i].video.path
       IN IF ok
          THEN /\ files' = IF files[path] = "absent" THEN files
                           ELSE [files EXCEPT ![path] = "complete"]
               /\ workers' = [workers EXCEPT ![i].counter = "success", ![i].ret = TRUE,
                                             ![i].pc = "read"]
          ELSE /\ files' = files
               /\ workers' = [workers EXCEPT ![i].raised = "write",
                                             ![i].counter = "failed",
                                             ![i].ret = FALSE, ![i].pc = "read"]
    /\ UNCHANGED <<stats, fetched>>
    /\ UNCHANGED <<service_vars, proxy_log, playwright_vars, tasks>>

\* self.stats[counter] += 1, the read of the entry
ReadCounter(i) ==
    /\ i \in DOMAIN workers
    /\ workers[i].pc = "read"
    /\ workers' = [workers EXCEPT ![i].tmp = stats[workers[i].counter],
                                  ![i].pc = "store"]
    /\ UNCHANGED <<files, stats, fetched>>
    /\ UNCHANGED <<service_vars, proxy_log, playwright_vars, tasks>>

\* self.stats[counter] += 1, the store of the value read plus one
StoreCounter(i) ==
    /\ i \in DOMAIN workers
    /\ workers[i].pc = "store"
    /\ LET w == workers[i]
       IN /\ stats' = [stats EXCEPT ![w.counter] = w.tmp + 1]
          /\ workers' = [workers EXCEPT
                 ![i].increments = @ + 1,
                 ![i].pc = IF w.thread = "main" THEN "submit"
                           ELSE IF w.raised # None THEN "unlink"
                           ELSE "done"]
    /\ UNCHANGED <<files, fetched>>
    /\ UNCHANGED <<service_vars, proxy_log, playwright_vars, tasks>>

\* the cleanup of the except branch, and return False
Unlink(i) ==
    /\ i \in DOMAIN workers
    /\ workers[i].pc = "unlink"
    /\ LET path == workers[i].video.path
       IN files' = IF FileExists(path) THEN Unlinked(path) ELSE files
    /\ workers' = [workers EXCEPT ![i].pc = "done"]
    /\ UNCHANGED <<stats, fetched>>
    /\ UNCHANGED <<service_vars, proxy_log, playwright_vars, tasks>>

\* --------------------------------------------------------------- playwright
\* PlaywrightStrategy (playwright_strategy.py): one handler object serves every
\* parse_video call, so the coroutines of a batch share self.browser and
\* self.playwright. A coroutine runs from one await to the next in one step.
\* browsers[b] is the state of the b-th browser launched. In a coroutine, uses
\* is the browser its page belongs to and closing the one its _cleanup closes;
\* launched (the browser it launched, 0 if none) is history.
NoBrowser == 0        \* self.browser is None; the launched browsers are 1, 2, ...
NoPlaywright == 0     \* self.playwright is None; else the coroutine that started it

NewParse ==
    [pc |-> "init", uses |-> 0, closing |-> 0, launched |-> 0, result |-> None]

\* strategy['handler'].parse(url, options) is called
ParseCall ==
    /\ Len(parses) < MaxParses
    /\ parses' = Append(parses, NewParse)
    /\ UNCHANGED <<browser, playwright, browsers>>
    /\ UNCHANGED <<service_vars, proxy_log, downloader_vars, tasks>>

\* _init_browser: `if not self.browser`, up to `await async_playwright().start()`
\* or, with a browser there, up to `await self.browser.new_page()`
InitBrowser(i) ==
    /\ i \in DOMAIN parses
    /\ parses[i].pc = "init"
    /\ parses' = IF browser = NoBrowser
                 THEN [parses EXCEPT ![i].pc = "starting"]
                 ELSE [parses EXCEPT ![i].pc = "new_page", ![i].uses = browser]
    /\ UNCHANGED <<browser, playwright, browsers>>
    /\ UNCHANGED <<service_vars, proxy_log, downloader_vars, tasks>>

\* start() has returned: self.playwright is set, chromium.launch awaited
PlaywrightStarted(i) ==
    /\ i \in DOMAIN parses
    /\ parses[i].pc = "starting"
    /\ playwright' = i
    /\ parses' = [parses EXCEPT ![i].pc = "launching"]
    /\ UNCHANGED <<browser, browsers>>
    /\ UNCHANGED <<service_vars, proxy_log, downloader_vars, tasks>>

\* launch() has returned a new browser: self.browser is set, new_page awaited
BrowserLaunched(i) ==
    /\ i \in DOMAIN parses
    /\ parses[i].pc = "launching"
    /\ browsers' = Append(browsers, "open")
    /\ browser' = Len(browsers) + 1
    /\ parses' = [parses EXCEPT ![i].pc = "new_page", ![i].uses = Len(browsers) + 1,
                                ![i].launched = Len(browsers) + 1]
    /\ UNCHANGED playwright
    /\ UNCHANGED <<service_vars, proxy_log, downloader_vars, tasks>>

\* new_page() ends: with the page, goto awaited, or, the browser being
\* closed, with an error
NewPage(i) ==
    /\ i \in DOMAIN parses
    /\ parses[i].pc = "new_page"
    /\ parses' = IF browsers[parses[i].uses] = "open"
                 THEN [parses EXCEPT ![i].pc = "goto"]
                 ELSE [parses EXCEPT ![i].pc = "cleanup", ![i].result = "browser closed"]
    /\ UNCHANGED <<browser, playwright, browsers>>
    /\ UNCHANGED <<service_vars, proxy_log, downloader_vars, tasks>>

\* goto, _wait_for_content, _extract_from_page and page.close() end: with a
\* record (ok), with an error of the page, or, the browser being closed, with
\* an error
PageDone(i, ok) ==
    /\ i \in DOMAIN parses
    /\ parses[i].pc = "goto"
    /\ parses' = [parses EXCEPT
          ![i].pc = "cleanup",
          ![i].result = IF browsers[parses[i].uses] # "open" THEN "browser closed"
                        ELSE IF ok THEN "record" ELSE "error"]
    /\ UNCHANGED <<browser, playwright, browsers>>
    /\ UNCHANGED <<service_vars, proxy_log, downloader_vars, tasks>>

\* asyncio.wait_for (app.py:172-175) times out and cancels the coroutine while
\* it awaits the page
Cancelled(i) ==
    /\ i \in DOMAIN parses
    /\ parses[i].pc \in {"new_page", "goto"}
    /\ parses' = [parses EXCEPT ![i].pc = "cleanup", ![i].result = "cancelled"]
    /\ UNCHANGED <<browser, playwright, browsers>>
    /\ UNCHANGED <<service_vars, proxy_log, downloader_vars, tasks>>

\* _cleanup up to its first await
Cleanup(i) ==
    /\ i \in DOMAIN parses
    /\ parses[i].pc = "cleanup"
    /\ parses' = IF browser # NoBrowser
                 THEN [parses EXCEPT ![i].pc = "closing", ![i].closing = browser]
                 ELSE IF playwright # NoPlaywright
                 THEN [parses EXCEPT ![i].pc = "stopping"]
                 ELSE [parses EXCEPT ![i].pc = "done"]
    /\ UNCHANGED <<browser, playwright, browsers>>
    /\ UNCHANGED <<service_vars, proxy_log, downloader_vars, tasks>>

\* browser.close() has returned: self.browser = None, then self.playwright
BrowserClosed(i) ==
    /\ i \in DOMAIN parses
    /\ parses[i].pc = "closing"
    /\ browsers' = [browsers EXCEPT ![parses[i].closing] = "closed"]
    /\ browser' = NoBrowser
    /\ parses' = [parses EXCEPT ![i].pc = IF playwright # NoPlaywright THEN "stopping"
                                          ELSE "done"]
    /\ UNCHANGED playwright
    /\ UNCHANGED <<service_vars, proxy_log, downloader_vars, tasks>>

\* playwright.stop() has returned: self.playwright = None
PlaywrightStopped(i) ==
    /\ i \in DOMAIN parses
    /\ parses[i].pc = "stopping"
    /\ playwright' = NoPlaywright
    /\ parses' = [parses EXCEPT ![i].pc = "done"]
    /\ UNCHANGED <<browser, browsers>>
    /\ UNCHANGED <<service_vars, proxy_log, downloader_vars, tasks>>

\* ------------------------------------------------------------ specification
\* The service as constructed at import (app.py:59-61, 309) in the default
\* environment: ENABLE_PLAYWRIGHT unset (true), ENABLE_SELENIUM unset (false).
Init ==
    /\ strategies = InitialStrategies(TRUE, FALSE)
    /\ success_counts = [n \in StrategyNames |-> 0]
    /\ failure_counts = [n \in StrategyNames |-> 0]
    /\ redis = [u \in Urls |-> PyNone]
    /\ cache_stats = [hits |-> 0, misses |-> 0, sets |-> 0, deletes |-> 0]
    /\ counters = [total_requests |-> 0, total_success |-> 0, total_failure |-> 0,
                   cache_hits |-> 0]
    /\ proxies = <<>>
    /\ proxy_stats = [p \in ProxyPool |-> DefaultProxyStats]
    /\ current_index = 0
    /\ now = StartTime
    /\ handled = [parse |-> 0, batch |-> 0]
    /\ requests = <<>>
    /\ proxy_log = <<>>
    /\ files = [f \in Paths |-> "absent"]
    /\ stats = [total |-> 0, success |-> 0, failed |-> 0, skipped |-> 0]
    /\ fetched = [f \in Paths |-> 0]
    /\ workers = <<>>
    /\ browser = NoBrowser
    /\ playwright = NoPlaywright
    /\ browsers = <<>>
    /\ parses = <<>>
    /\ tasks = <<>>


Arrived == handled.parse + handled.batch

\* No request is being handled.
Idle == InFlight(requests) = <<>>

\* /parse requests handled one after the other, and /clear_cache, with Redis
\* reachable and no proxy configured (app.py:60 creates an empty ProxyManager).
Next ==
    \/ /\ Arrived < MaxRequests
       /\ Idle
       /\ \E body \in ParseBodies(Urls, {FALSE}) : Parse(body, TRUE)
    \/ \E r \in 1..Len(requests), outcome \in Outcomes : StrategyDone(r, 1, outcome, TRUE)
    \/ ClearCache(TRUE)

Spec == Init /\ [][Next]_vars

\* /parse requests for one URL with a Redis that can fail any cache operation.
NextFaults ==
    \/ /\ Arrived < MaxRequests
       /\ Idle
       /\ \E body \in ParseBodies({"u1"}, {FALSE}), ok \in BOOLEAN : Parse(body, ok)
    \/ \E r \in 1..Len(requests), outcome \in Outcomes, ok \in BOOLEAN :
          StrategyDone(r, 1, outcome, ok)

SpecFaults == Init /\ [][NextFaults]_vars

\* /parse requests for one URL, with and without use_proxy, while proxies are
\* added to the ProxyManager and the clock advances.
NextProxy ==
    \/ \E p \in ServiceProxies : AddProxy(p)
    \/ /\ Arrived < MaxRequests
       /\ Idle
       /\ \E body \in ParseBodies({"u1"}, BOOLEAN) : Parse(body, TRUE)
    \/ \E r \in 1..Len(requests), outcome \in Outcomes : StrategyDone(r, 1, outcome, TRUE)
    \/ /\ now < StartTime + MaxTicks * ProxyCooldown
       /\ Tick(ProxyCooldown)

SpecProxy == Init /\ [][NextProxy]_vars

\* What a strategy ends with in the batch specification: an exception, a video
\* record or an image post.
BatchOutcomes ==
    { o \in Outcomes : o.kind = "raise" \/ (o.kind = "return" /\ o.value.video_id = 1) }

\* /batch_parse requests handled one after the other, the parse_video
\* coroutines of each running concurrently.  Every parse_video call reads the
\* cache once, so hits + misses counts the calls made so far.
NextBatch ==
    \/ /\ handled.batch < MaxBatchCalls
       /\ Idle
       /\ \E body \in BatchBodies(Urls, {FALSE}, MaxBatchCalls) :
             /\ cache_stats.hits + cache_stats.misses + BatchCalls(body) <= MaxBatchCalls
             /\ BatchParse(body)
    \/ \E r \in 1..Len(requests), k \in 1..MaxBatchCalls : Begin(r, k, TRUE)
    \/ \E r \in 1..Len(requests), k \in 1..MaxBatchCalls, outcome \in BatchOutcomes :
          StrategyDone(r, k, outcome, TRUE)
    \/ \E r \in 1..Len(requests) : BatchRespond(r)

SpecBatch == Init /\ [][NextBatch]_vars

\* The service while the entries of the cache age: the clock advances by half
\* the TTL of an entry at a time.
HalfTTL == CacheTTL \div 2

NextTTL ==
    \/ /\ Arrived < MaxRequests
       /\ Idle
       /\ \E body \in ParseBodies({"u1"}, {FALSE}) : Parse(body, TRUE)
    \/ \E r \in 1..Len(requests), outcome \in Outcomes : StrategyDone(r, 1, outcome, TRUE)
    \/ /\ now < StartTime + MaxTicks * CacheTTL
       /\ Tick(HalfTTL)

SpecTTL == Init /\ [][NextTTL]_vars

\* The values of ProxyManager.rotation_strategy
Rotations == {"random", "round-robin", "weighted"}

\* A ProxyManager used directly: proxies are added and removed, handed out
\* under every rotation strategy and marked, while time passes.
NextProxyManager ==
    \/ \E p \in TestedProxies : AddProxy(p)
    \/ \E p \in TestedProxies : RemoveProxy(p)
    \/ \E strategy \in Rotations : GetProxyCall(strategy)
    \/ \E p \in TestedProxies : MarkSuccess(p)
    \/ \E p \in TestedProxies : MarkFailure(p, BlockDuration)
    \/ ProxyGetStats
    \/ \E d \in {ProxyCooldown, BlockDuration} : Elapse(d)

SpecProxyManager == Init /\ [][NextProxyManager]_vars

\* A ProxyManager given its list of proxies, none of which is ever marked, and
\* then asked for proxies in round-robin while time passes
NextRoundRobin ==
    \/ \E p \in ProxyPool : proxy_log = <<>> /\ AddProxy(p)
    \/ GetProxyCall("round-robin")
    \/ Elapse(ProxyCooldown)

SpecRoundRobin == Init /\ [][NextRoundRobin]_vars

\* download_video called again and again from one thread
NextDownload ==
    \/ \E video \in Videos : DownloadVideo(video)
    \/ \E i \in 1..MaxDownloads : Start(i)
    \/ \E i \in 1..MaxDownloads, got \in {"no_images", "some", "none"} :
          DownloadImages(i, got)
    \/ \E i \in 1..MaxDownloads, ok \in BOOLEAN : Fetch(i, ok)
    \/ \E i \in 1..MaxDownloads, ok \in BOOLEAN : Write(i, ok)
    \/ \E i \in 1..MaxDownloads : ReadCounter(i)
    \/ \E i \in 1..MaxDownloads : StoreCounter(i)
    \/ \E i \in 1..MaxDownloads : Unlink(i)

SpecDownload == Init /\ [][NextDownload]_vars

\* One download_batch: the main thread and the workers of its pool
NextDownloadBatch ==
    \/ \E results \in SeqsUpTo(BatchVideos, MaxWorkers) :
          workers = <<>> /\ DownloadBatch(results)
    \/ \E i \in 1..(MaxWorkers + 1) : Submit(i)
    \/ \E i \in 1..(MaxWorkers + 1) : Start(i)
    \/ \E i \in 1..(MaxWorkers + 1), ok \in BOOLEAN : Fetch(i, ok)
    \/ \E i \in 1..(MaxWorkers + 1), ok \in BOOLEAN : Write(i, ok)
    \/ \E i \in 1..(MaxWorkers + 1) : ReadCounter(i)
    \/ \E i \in 1..(MaxWorkers + 1) : StoreCounter(i)
    \/ \E i \in 1..(MaxWorkers + 1) : Unlink(i)

SpecDownloadBatch == Init /\ [][NextDownloadBatch]_vars

\* A downloader on which download_from_url and download_batch are called one
\* after the other, MaxDownloads threads in all
NextDownloader ==
    \/ \E parsed \in Videos \cup {ParseFailed} : DownloadFromUrl(parsed)
    \/ \E results \in SeqsUpTo(BatchVideos, MaxWorkers) :
          Len(workers) + Len(results) < MaxDownloads /\ DownloadBatch(results)
    \/ \E i \in 1..MaxDownloads : Submit(i)
    \/ \E i \in 1..MaxDownloads : Start(i)
    \/ \E i \in 1..MaxDownloads, got \in {"no_images", "some", "none"} :
          DownloadImages(i, got)
    \/ \E i \in 1..MaxDownloads, ok \in BOOLEAN : Fetch(i, ok)
    \/ \E i \in 1..MaxDownloads, ok \in BOOLEAN : Write(i, ok)
    \/ \E i \in 1..MaxDownloads : ReadCounter(i)
    \/ \E i \in 1..MaxDownloads : StoreCounter(i)
    \/ \E i \in 1..MaxDownloads : Unlink(i)

SpecDownloader == Init /\ [][NextDownloader]_vars

\* The parse coroutines of the shared PlaywrightStrategy
NextPlaywright ==
    \/ ParseCall
    \/ \E i \in 1..MaxParses : InitBrowser(i)
    \/ \E i \in 1..MaxParses : PlaywrightStarted(i)
    \/ \E i \in 1..MaxParses : BrowserLaunched(i)
    \/ \E i \in 1..MaxParses : NewPage(i)
    \/ \E i \in 1..MaxParses, ok \in BOOLEAN : PageDone(i, ok)
    \/ \E i \in 1..MaxParses : Cancelled(i)
    \/ \E i \in 1..MaxParses : Cleanup(i)
    \/ \E i \in 1..MaxParses : BrowserClosed(i)
    \/ \E i \in 1..MaxParses : PlaywrightStopped(i)

SpecPlaywright == Init /\ [][NextPlaywright]_vars

\* ------------------------------------------------------- EnhancedAPIStrategy
\* apiproxy/douyin/strategies/api_strategy.py.  Each download call is a record:
\* the task (task_type, url, status), where the coroutine stands (pc), the
\* endpoint methods called and what each yielded, the value returned by
\* _process_aweme_data, the DownloadResult of the call, whether _cleanup ran
\* and how the call ended.

TaskTypes == {"VIDEO", "USER", "MIX", "LIVE"}

\* task.url: a v.douyin.com short link, a long link with the ID in its path, a
\* text in which no pattern matches, or a value that is no string
UrlKinds == {"short", "long", "other", "not_a_string"}

\* methods of _download_video, in the order of the list
Methods ==
    <<"_try_detail_api", "_try_fallback_apis", "_try_web_api",
      "_try_share_api", "_try_post_api", "_try_search_api">>

\* _try_post_api and _try_search_api return None at once: the methods before
\* them are the ones that wait for the network
Awaited == 4

\* the error messages of _download_video, in English
NoID == "no video ID could be extracted from the URL"
AllFailed == "all API endpoints failed"

DownloadResult(success, error_message) ==
    [success |-> success, error_message |-> error_message]

NoResult == DownloadResult(FALSE, "no result")

\* _download_user_content, _download_mix, _download_generic
NotImplemented(task_type) ==
    CASE task_type = "USER" -> DownloadResult(FALSE, "user content not implemented")
      [] task_type = "MIX"  -> DownloadResult(FALSE, "mix not implemented")
      [] OTHER              -> DownloadResult(FALSE, "generic download not implemented")

\* _process_aweme_data: success when a file path was collected; an exception
\* inside it is turned into a failed result
ProcessAwemeData(data) ==
    CASE data = "with_files" -> DownloadResult(TRUE, None)
      [] data = "no_urls"    -> DownloadResult(FALSE, None)
      [] OTHER               -> DownloadResult(FALSE, "str(e)")

AwemeData == {"with_files", "no_urls", "malformed"}

\* a chain that takes an exception of a method for its data
HasDataOrRaised(outcome) == outcome # "none"

\* `if data:` of _download_video
HasData(outcome) == outcome = "data"

NewTask(task_type, url) ==
    [task_type |-> task_type, url |-> url, status |-> "PROCESSING",
     pc |-> "entered", aweme_id |-> None, called |-> <<>>, outcomes |-> <<>>,
     processed |-> NoResult, result |-> NoResult, cleaned |-> FALSE,
     ended |-> "no"]

\* download from `if result.success` on, for a result of the chosen method, then
\* the finally clause
Returns(t, result) ==
    [t EXCEPT !.status = IF result.success THEN "COMPLETED" ELSE "FAILED",
              !.result = result, !.pc = "done", !.cleaned = TRUE,
              !.ended = "returned"]

\* download's `except Exception`, then the finally clause
Excepts(t) ==
    [t EXCEPT !.status = "FAILED", !.result = DownloadResult(FALSE, "str(e)"),
              !.pc = "done", !.cleaned = TRUE, !.ended = "returned"]

AllEnded == \A i \in DOMAIN tasks : tasks[i].ended # "no"

\* _download_video after _resolve_url: _extract_aweme_id on the resolved URL and
\* then on the original one; without an ID the call ends, with one the first
\* method is called
Extracted(t, found) ==
    IF found
    THEN [t EXCEPT !.aweme_id = "id", !.pc = "method",
                   !.called = <<Methods[1]>>]
    ELSE Returns(t, DownloadResult(FALSE, NoID))

\* download(task) up to its first wait.  The three types other than VIDEO end
\* at once; a url that is no string raises in _resolve_url; a short link waits
\* for its redirect; a long link has its ID in the path; for any other text
\* the page is fetched and searched for an ID.
Download(task_type, url, found) ==
    /\ AllEnded
    /\ Len(tasks) < MaxTasks
    /\ LET t == NewTask(task_type, url)
       IN tasks' = Append(tasks,
              CASE task_type # "VIDEO"    -> Returns(t, NotImplemented(task_type))
                [] url = "not_a_string"   -> Excepts(t)
                [] url = "short"          -> [t EXCEPT !.pc = "resolve"]
                [] url = "long"           -> Extracted(t, TRUE)
                [] OTHER                  -> Extracted(t, found))
    /\ UNCHANGED <<service_vars, proxy_log, downloader_vars, playwright_vars>>

\* _resolve_url has returned
Resolved(i, found) ==
    /\ i \in DOMAIN tasks
    /\ tasks[i].pc = "resolve"
    /\ tasks' = [tasks EXCEPT ![i] = Extracted(tasks[i], found)]
    /\ UNCHANGED <<service_vars, proxy_log, downloader_vars, playwright_vars>>

\* The methods from position k on that come back without waiting
Stubs(k) == SubSeq(Methods, k, Len(Methods))

\* The method awaited has returned data, returned nothing or raised.  With data
\* the processing result is returned; otherwise the next method is called, and
\* after the last awaited one the two remaining methods yield nothing and the
\* loop ends.
MethodDone(i, outcome, data) ==
    /\ i \in DOMAIN tasks
    /\ tasks[i].pc = "method"
    /\ LET t == tasks[i]
           k == Len(t.called)
           u == [t EXCEPT !.outcomes = Append(@, outcome)]
       IN tasks' = [tasks EXCEPT ![i] =
              IF HasData(outcome)
              THEN Returns([u EXCEPT !.processed = ProcessAwemeData(data)],
                           ProcessAwemeData(data))
              ELSE IF k < Awaited
              THEN [u EXCEPT !.called = Append(@, Methods[k + 1])]
              ELSE Returns([u EXCEPT !.called = @ \o Stubs(k + 1),
                                     !.outcomes = @ \o [j \in 1..(Len(Methods) - k) |-> "none"]],
                           DownloadResult(FALSE, AllFailed))]
    /\ UNCHANGED <<service_vars, proxy_log, downloader_vars, playwright_vars>>

\* The coroutine is cancelled while it waits: CancelledError is no Exception,
\* so no except clause of the call catches it; the finally clause runs
DownloadCancelled(i) ==
    /\ i \in DOMAIN tasks
    /\ tasks[i].pc \in {"resolve", "method"}
    /\ tasks' = [tasks EXCEPT ![i].pc = "done", ![i].cleaned = TRUE,
                              ![i].ended = "cancelled"]
    /\ UNCHANGED <<service_vars, proxy_log, downloader_vars, playwright_vars>>

MethodOutcomes == {"data", "none", "raises"}

NextAPIStrategy ==
    \/ \E task_type \in TaskTypes, url \in UrlKinds, found \in BOOLEAN :
          Download(task_type, url, found)
    \/ \E i \in 1..MaxTasks, found \in BOOLEAN : Resolved(i, found)
    \/ \E i \in 1..MaxTasks, outcome \in MethodOutcomes, data \in AwemeData :
          MethodDone(i, outcome, data)
    \/ \E i \in 1..MaxTasks : DownloadCancelled(i)

SpecAPIStrategy == Init /\ [][NextAPIStrategy]_vars

\* ------------------------------------------------------------------ claims
\* The parse_video call of a /parse request, and whether it has one.
HasCall(rs, r) == r \in 1..Len(rs) /\ rs[r].calls # <<>>
CallOf(rs, r) == rs[r].calls[1]

\* Request r is being handled and this step is no arrival, so r names the same
\* request before and after the step.
Running(r) ==
    /\ handled' = handled
    /\ HasCall(requests, r)
    /\ CallOf(requests, r).pc = "running"

\* A /parse request arrives in this step.
Arrives == handled'.parse = handled.parse + 1 /\ requests' # <<>>
Arrival == requests'[Len(requests')]

\* The strategies tried by a call are a prefix of its sorted order, which is a
\* permutation of the enabled strategies.
InOrder(d) ==
    \/ d.hit
    \/ d.pc = "pending"
    \/ /\ Len(d.sorted) = Len(strategies)
       /\ SeqToSet(d.sorted) = SeqToSet(strategies)
       /\ d.idx \in 1..Len(d.sorted)
       /\ d.executed = SubSeq(d.sorted, 1, d.idx)

\* C1: on a cache miss parse_video executes the enabled strategies one at a
\* time in the sorted order and returns the record of the first strategy whose
\* result passes _validate_result; no later strategy is executed for the call.
C1_FirstValidResultReturned ==
    [][ /\ \A r \in 1..Len(requests') :
              HasCall(requests', r) => InOrder(CallOf(requests', r))
        /\ \A r \in 1..Len(requests) :
              Running(r) =>
                 LET c == CallOf(requests, r)
                     d == CallOf(requests', r)
                 IN /\ d.sorted = c.sorted
                    /\ \/ d = c
                       \/ /\ d.pc = "running"
                          /\ d.idx = c.idx + 1
                          /\ d.executed = Append(c.executed, c.sorted[c.idx + 1])
                          /\ ~ValidateResult(d.result)
                       \/ /\ d.pc = "returned"
                          /\ ~d.hit
                          /\ ValidateResult(d.ret)
                          /\ ~ValidateResult(c.result)
                          /\ d.executed = c.executed
                       \/ /\ d.pc = "raised"
                          /\ d.executed = c.executed
        /\ \A r \in 1..Len(requests) :
              (handled' = handled /\ HasCall(requests, r)
                   /\ CallOf(requests, r).pc \in {"returned", "raised"})
                 => requests'[r] = requests[r]
      ]_vars

\* A call returned the record of its second or third strategy, in an order that
\* the recorded history had changed.
C1_Witness ==
    \E r \in 1..Len(requests) :
       /\ HasCall(requests, r)
       /\ CallOf(requests, r).pc = "returned"
       /\ ~CallOf(requests, r).hit
       /\ Len(CallOf(requests, r).executed) >= 2
       /\ CallOf(requests, r).sorted # strategies

\* C2: a strategy that raises or times out is followed by the next enabled
\* strategy; 'All strategies failed' is raised only after every enabled
\* strategy was attempted in the call and none produced a valid record.
C2_ChainAdvancesOnFailure ==
    [][ \A r \in 1..Len(requests) :
           Running(r) =>
              LET c == CallOf(requests, r)
                  d == CallOf(requests', r)
                  name == c.sorted[c.idx]
              IN /\ (failure_counts'[name] > failure_counts[name]
                        /\ c.idx < Len(c.sorted))
                       => /\ d.pc = "running"
                          /\ d.idx = c.idx + 1
                          /\ d.executed[d.idx] = c.sorted[c.idx + 1]
                 /\ d.pc = "raised"
                       => /\ c.idx = Len(c.sorted)
                          /\ Len(d.executed) = Len(strategies)
                          /\ SeqToSet(d.executed) = SeqToSet(strategies)
                          /\ ~ValidateResult(c.result)
                          /\ d.ret[1] = "All strategies failed"
      ]_vars

\* A call raised after all three strategies, the last of which timed out.
C2_Witness ==
    \E r \in 1..Len(requests) :
       /\ HasCall(requests, r)
       /\ CallOf(requests, r).pc = "raised"
       /\ Len(CallOf(requests, r).executed) = Len(strategies)
       /\ CallOf(requests, r).ret[2][1] = "timed out"
       /\ requests[r].response.status = 500

\* C3: a record r obtained from a strategy and cached by parse_video(u) is what
\* a later parse_video(u) without force_refresh returns, the entry being
\* still there (TTL not expired, cache not cleared): get after set(k, v) is v.
C3_CachedParseReturnsRecord ==
    [][ \A r \in 1..Len(requests) :
           (/\ HasCall(requests, r)
            /\ CallOf(requests, r).pc = "returned"
            /\ ~CallOf(requests, r).hit
            /\ RedisGet(CallOf(requests, r).url) # PyNone
            /\ Arrives
            /\ HasCall(requests', Len(requests'))
            /\ Arrival.body.url = CallOf(requests, r).url
            /\ ~Arrival.body.force_refresh)
           => /\ Arrival.calls[1].pc = "returned"
              /\ Arrival.calls[1].ret = CallOf(requests, r).ret
      ]_vars

\* C4: a strategy result that is a normalized image post is accepted, so no
\* call goes on to another strategy after one.
C4_ImagePostAccepted ==
    \A r \in 1..Len(requests) :
       (HasCall(requests, r) /\ CallOf(requests, r).pc = "running"
            /\ CallOf(requests, r).result # PyNone)
          => ~(/\ CallOf(requests, r).result.is_image
               /\ CallOf(requests, r).result.images # <<>>
               /\ CallOf(requests, r).result.video_url = EmptyStr)

\* The score of the claim, base_weight * (0.5 + 0.5 * success_rate), as a
\* fraction: with s2 = 2 * success_count and f2 = 2 * failure_count,
\* base10/10 * (1/2 + 1/2 * s2/(s2 + f2)) = base10 * ((s2 + f2) + s2) / (20 * (s2 + f2)).
ClaimedScore(name) ==
    LET s2 == 2 * success_counts[name]
        f2 == failure_counts[name]
    IN IF s2 + f2 = 0
       THEN [num |-> BaseWeight10(name), den |-> 10]
       ELSE [num |-> BaseWeight10(name) * ((s2 + f2) + s2), den |-> 20 * (s2 + f2)]

\* C5: at the start of a parse_video call the strategies are ordered by
\* non-increasing score base_weight * (0.5 + 0.5 * success_rate), the score
\* being base_weight for a strategy with no recorded attempts.
C5_SortedByScore ==
    [][ (Arrives /\ HasCall(requests', Len(requests'))
             /\ Arrival.calls[1].pc = "running")
           => LET order == Arrival.calls[1].sorted
              IN /\ Len(order) = Len(strategies)
                 /\ SeqToSet(order) = SeqToSet(strategies)
                 /\ \A i \in 1..Len(order) - 1 :
                       ClaimedScore(order[i]).num * ClaimedScore(order[i + 1]).den
                          >= ClaimedScore(order[i + 1]).num * ClaimedScore(order[i]).den
      ]_vars

\* A call starts with an order that differs from the configured one, two
\* strategies having a recorded history.
C5_Witness ==
    \E r \in 1..Len(requests) :
       /\ HasCall(requests, r)
       /\ CallOf(requests, r).pc = "running"
       /\ CallOf(requests, r).idx = 1
       /\ CallOf(requests, r).sorted # strategies
       /\ failure_counts["api_with_signature"] > 0
       /\ success_counts["playwright"] > 0

\* C6: parse_video writes the cache entry of its URL only when a strategy
\* produced a record that passed validation; a step in which a strategy failed,
\* timed out or returned an invalid record, and the end of a call in which all
\* did, leave the cache as it was.
C6_CacheWrittenOnlyOnSuccess ==
    [][ \A r \in 1..Len(requests) :
           Running(r) =>
              LET c == CallOf(requests, r)
                  d == CallOf(requests', r)
              IN IF d.pc = "returned"
                 THEN /\ ValidateResult(d.ret)
                      /\ redis' = [redis EXCEPT ![c.url] = redis'[c.url]]
                      /\ redis'[c.url] # PyNone
                      /\ JsonLoads(redis'[c.url].text).value = d.ret
                      /\ cache_stats'.sets = cache_stats.sets + 1
                 ELSE /\ cache_stats'.sets = cache_stats.sets
                      /\ \/ redis' = redis
                         \/ d = c       \* a /clear_cache request
      ]_vars

\* A forced refresh in which every strategy failed left the entry of its URL
\* in the cache.
C6_Witness ==
    \E r \in 1..Len(requests) :
       /\ HasCall(requests, r)
       /\ CallOf(requests, r).pc = "raised"
       /\ CallOf(requests, r).force_refresh
       /\ RedisGet(CallOf(requests, r).url) # PyNone

\* C7: when parse_video finds a cache entry for the URL and force_refresh is
\* not set, it returns without executing a strategy and without acquiring a
\* proxy, and leaves the strategies' counters and the cache contents unchanged.
C7_CacheHitHasNoEffects ==
    [][ (/\ Arrives
         /\ HasCall(requests', Len(requests'))
         /\ RedisGet(Arrival.body.url) # PyNone
         /\ ~Arrival.body.force_refresh)
           => /\ Arrival.calls[1].pc = "returned"
              /\ Arrival.calls[1].hit
              /\ Arrival.calls[1].executed = <<>>
              /\ Arrival.calls[1].proxy = None
              /\ proxy_stats' = proxy_stats
              /\ current_index' = current_index
              /\ success_counts' = success_counts
              /\ failure_counts' = failure_counts
              /\ redis' = redis
      ]_vars

\* A request with use_proxy was answered from the cache while a proxy was
\* there to be handed out.
C7_Witness ==
    \E r \in 1..Len(requests) :
       /\ HasCall(requests, r)
       /\ CallOf(requests, r).hit
       /\ CallOf(requests, r).use_proxy
       /\ AvailableProxies(proxy_stats) # <<>>

\* What C8 says of every call with force_refresh, but for the replacement of
\* the entry: it is not answered from the cache, and it returns only the valid
\* record of a strategy it ran.
ForcedRefreshRunsChain ==
    /\ (Arrives /\ HasCall(requests', Len(requests')) /\ Arrival.body.force_refresh)
          => /\ ~Arrival.calls[1].hit
             /\ Arrival.calls[1].pc = "running"
             /\ Arrival.calls[1].executed # <<>>
    /\ \A r \in 1..Len(requests) :
          (Running(r) /\ CallOf(requests, r).force_refresh
               /\ CallOf(requests', r).pc = "returned")
             => /\ ~CallOf(requests', r).hit
                /\ ValidateResult(CallOf(requests', r).ret)

\* The entry of the URL of call d holds the record the call returned.
EntryHoldsRecord(rd, d) ==
    /\ rd[d.url] # PyNone
    /\ JsonLoads(rd[d.url].text).value = d.ret

\* C8: with force_refresh parse_video never returns the cached entry, runs the
\* strategy chain even if the URL is cached, and on success the cache entry of
\* the URL is replaced by the newly resolved record.
C8_ForceRefreshReplacesEntry ==
    [][ /\ ForcedRefreshRunsChain
        /\ \A r \in 1..Len(requests) :
              (Running(r) /\ CallOf(requests, r).force_refresh
                   /\ CallOf(requests', r).pc = "returned")
                 => EntryHoldsRecord(redis', CallOf(requests', r))
      ]_vars

\* C8, amended: with force_refresh parse_video never returns the cached entry
\* and runs the strategy chain even if the URL is cached; on success the cache
\* entry of the URL is replaced by the newly resolved record if the cache write
\* succeeds, and is left as it was if Redis fails the write.
C8_ForceRefreshReplacesEntryIfWritten ==
    [][ /\ ForcedRefreshRunsChain
        /\ \A r \in 1..Len(requests) :
              (Running(r) /\ CallOf(requests, r).force_refresh
                   /\ CallOf(requests', r).pc = "returned")
                 => IF cache_stats'.sets = cache_stats.sets + 1
                    THEN EntryHoldsRecord(redis', CallOf(requests', r))
                    ELSE redis' = redis
      ]_vars

\* A forced refresh of a cached URL (its cache read was a hit) returned a
\* record, and the entry holds that record.
C8_Witness ==
    \E r \in 1..Len(requests) :
       /\ HasCall(requests, r)
       /\ CallOf(requests, r).force_refresh
       /\ CallOf(requests, r).pc = "returned"
       /\ cache_stats.hits >= 1
       /\ cache_stats.sets >= 2
       /\ counters.cache_hits = 0
       /\ EntryHoldsRecord(redis, CallOf(requests, r))

IsRecord(x) == x # PyNone /\ "keys" \in DOMAIN x /\ RequiredFields \subseteq x.keys

\* C10: /parse answers 400, without invoking a strategy, when the request has
\* no url; 500 with success false and the error text when parse_video raises;
\* and 200 with success true and the record otherwise.
C10_ParseStatusCodes ==
    \A r \in 1..Len(requests) :
       (requests[r].kind = "parse" /\ requests[r].response # PyNone) =>
          LET q == requests[r]
              no_url == q.body = JsonNull \/ q.body.url \in {None, ""}
          IN IF no_url
             THEN q.response.status = 400 /\ q.calls = <<>>
             ELSE IF q.calls[1].pc = "raised"
             THEN /\ q.response.status = 500
                  /\ q.response.success = "false"
                  /\ q.response.error = q.calls[1].ret
             ELSE /\ q.response.status = 200
                  /\ q.response.success = "true"
                  /\ IsRecord(q.response.data)

\* ------------------------------------------------------------ proxy manager
\* The step is a call made to the ProxyManager
ProxyCallMade == Len(proxy_log') = Len(proxy_log) + 1
LastProxyCall == proxy_log'[Len(proxy_log')]

\* Before the call, proxy q is in the list, is not blocked until a later time
\* and was not handed out within the last second.
Eligible(q) ==
    /\ q \in SeqToSet(proxies)
    /\ ~(proxy_stats[q].blocked /\ now < proxy_stats[q].block_until)
    /\ ~\E i \in DOMAIN proxy_log :
          /\ proxy_log[i].op = "get_proxy"
          /\ proxy_log[i].proxy = q
          /\ now - proxy_log[i].at < ProxyCooldown

\* C11: a proxy returned by get_proxy is in the list, is not blocked with a
\* block_until in the future and was not returned within the preceding second;
\* get_proxy returns None exactly when no proxy satisfies these conditions.
C11_GetProxyReturnsEligible ==
    [][ (ProxyCallMade /\ LastProxyCall.op = "get_proxy") =>
          /\ LastProxyCall.proxy # None => Eligible(LastProxyCall.proxy)
          /\ LastProxyCall.proxy = None <=> ~\E q \in ProxyPool : Eligible(q) ]_vars

\* get_proxy has returned each of two proxies, and then None within the same
\* second.
C11_Witness ==
    \E i, j, k \in DOMAIN proxy_log :
        /\ i < j /\ j < k
        /\ proxy_log[i].op = "get_proxy" /\ proxy_log[i].proxy = "p1"
        /\ proxy_log[j].op = "get_proxy" /\ proxy_log[j].proxy = "p2"
        /\ proxy_log[k].op = "get_proxy" /\ proxy_log[k].proxy = None
        /\ proxy_log[k].at = proxy_log[i].at

\* get_proxy has returned None because the only unused proxy was blocked.
BlockedProxyWithheld ==
    \E k \in DOMAIN proxy_log :
        /\ proxy_log[k].op = "get_proxy" /\ proxy_log[k].proxy = None
        /\ \E q \in SeqToSet(proxies) :
              proxy_stats[q].blocked /\ proxy_stats[q].last_used = 0

\* The number of failures of proxy q at the end of history log with no success
\* of q after them
RECURSIVE ConsecutiveFailures(_, _)
ConsecutiveFailures(log, q) ==
    IF log = <<>> THEN 0
    ELSE LET last == log[Len(log)]
             rest == SubSeq(log, 1, Len(log) - 1)
         IN IF last.proxy # q \/ last.op \notin {"mark_success", "mark_failure"}
            THEN ConsecutiveFailures(rest, q)
            ELSE IF last.op = "mark_success" THEN 0
            ELSE 1 + ConsecutiveFailures(rest, q)

\* C12: mark_failure blocks the proxy for block_duration once it has failed 3
\* times in a row with no success in between, and does not block a proxy with
\* fewer than 3 consecutive failures.
C12_BlockedAfterThreeConsecutiveFailures ==
    [][ (ProxyCallMade /\ LastProxyCall.op = "mark_failure") =>
          LET q == LastProxyCall.proxy
          IN IF ConsecutiveFailures(proxy_log', q) >= 3
             THEN /\ proxy_stats'[q].blocked
                  /\ proxy_stats'[q].block_until = now + BlockDuration
             ELSE /\ proxy_stats'[q].blocked = proxy_stats[q].blocked
                  /\ proxy_stats'[q].block_until = proxy_stats[q].block_until ]_vars

\* The same, for a proxy that has never succeeded
C12_BlockedAfterThreeFailuresFromStart ==
    [][ (ProxyCallMade /\ LastProxyCall.op = "mark_failure"
           /\ proxy_stats[LastProxyCall.proxy].success = 0) =>
          LET q == LastProxyCall.proxy
          IN IF ConsecutiveFailures(proxy_log', q) >= 3
             THEN /\ proxy_stats'[q].blocked
                  /\ proxy_stats'[q].block_until = now + BlockDuration
             ELSE /\ proxy_stats'[q].blocked = proxy_stats[q].blocked
                  /\ proxy_stats'[q].block_until = proxy_stats[q].block_until ]_vars

\* ---------------------------------------------------------------- downloader
\* The download_video call under way or last returned, calls being sequential
LastCall == workers[Len(workers)]

\* LastCall was for a video whose target file existed when it was entered
FoundFile ==
    /\ workers # <<>>
    /\ LastCall.video.kind = "video"
    /\ LastCall.before.files[LastCall.video.path] # "absent"

\* C13: download_video for a video whose target file already exists performs no
\* media fetch, leaves the file untouched, increments only skipped and returns
\* True.
C13_ExistingFileSkipped ==
    FoundFile =>
      /\ fetched = LastCall.before.fetched
      /\ files = LastCall.before.files
      /\ \/ stats = LastCall.before.stats
         \/ stats = [LastCall.before.stats EXCEPT !.skipped = @ + 1]
      /\ LastCall.pc = "done" =>
            /\ LastCall.ret = TRUE
            /\ stats = [LastCall.before.stats EXCEPT !.skipped = @ + 1]

\* A call for a video downloaded before has returned.
C13_Witness ==
    /\ FoundFile
    /\ LastCall.pc = "done"
    /\ LastCall.before.files[LastCall.video.path] = "complete"
    /\ LastCall.before.stats.success > 0

\* C14: when the fetch or the write of the file fails, download_video returns
\* False, increments failed and leaves no file at the target path, so that
\* after any sequential series of calls a file present is a completed download.
C14_FailedDownloadLeavesNoFile ==
    /\ \A i \in DOMAIN workers :
          (workers[i].raised # None /\ workers[i].pc = "done") =>
             /\ workers[i].ret = FALSE
             /\ i = Len(workers) =>
                   /\ stats = [workers[i].before.stats EXCEPT !.failed = @ + 1]
                   /\ files[workers[i].video.path] = "absent"
                   /\ \A f \in Paths \ {workers[i].video.path} :
                         files[f] = workers[i].before.files[f]
    /\ AllDone => \A f \in Paths : files[f] \in {"absent", "complete"}

\* A call whose write failed after the file was created has returned, and
\* another file, downloaded before, is there.
C14_Witness ==
    /\ workers # <<>>
    /\ LastCall.raised = "write"
    /\ LastCall.pc = "done"
    /\ \E f \in Paths : files[f] = "complete"

\* ------------------------------------------------------- strategy statistics
\* The step ends the attempt call k of request r was awaiting: the loop of
\* parse_video moves on, returns or raises.
AttemptEnds(r, k) ==
    /\ r \in DOMAIN requests
    /\ k \in DOMAIN requests[r].calls
    /\ requests[r].calls[k].pc = "running"
    /\ requests'[r].calls[k] # requests[r].calls[k]

\* The strategy attempted
Attempted(r, k) == requests[r].calls[k].sorted[requests[r].calls[k].idx]

\* The attempt that ends produced the record parse_video returns
AttemptReturned(r, k) == requests'[r].calls[k].pc = "returned"

\* C15: every strategy attempt is recorded as exactly one success or one
\* failure: an attempt that did not produce the returned record increases the
\* strategy's failure count, one that produced it increases its success count.
C15_EveryAttemptRecorded ==
    [][ \A r \in 1..MaxRequests, k \in 1..MaxBatchUrls :
          AttemptEnds(r, k) =>
             IF AttemptReturned(r, k)
             THEN /\ success_counts'[Attempted(r, k)] = success_counts[Attempted(r, k)] + 1
                  /\ failure_counts'[Attempted(r, k)] <= failure_counts[Attempted(r, k)]
             ELSE /\ success_counts' = success_counts
                  /\ failure_counts'[Attempted(r, k)] > failure_counts[Attempted(r, k)] ]_vars

\* C16: when use_proxy is set and get_proxy returned proxy p, the outcome of the
\* parse is recorded against p: mark_success(p) when a record is returned,
\* mark_failure(p) when every strategy failed (so that a proxy that keeps
\* failing ends up blocked).
C16_OutcomeRecordedAgainstProxy ==
    \A r \in DOMAIN requests : \A k \in DOMAIN requests[r].calls :
        LET c == requests[r].calls[k]
        IN (c.use_proxy /\ c.proxy # None) =>
              /\ c.pc = "returned" => proxy_stats[c.proxy].success > 0
              /\ c.pc = "raised" => proxy_stats[c.proxy].failure > 0

\* --------------------------------------------------------------------- metrics
\* The parse_video calls made so far: each looks the cache up once, and in
\* Spec every lookup is counted as a hit or a miss.
ParseCalls == cache_stats.hits + cache_stats.misses

\* C17: total_requests equals the number of parse requests handled (so that
\* success_rate, total_success / total_requests, is the fraction resolved).
C17_TotalRequestsCountsParses ==
    Idle => counters.total_requests = ParseCalls

\* ParsingService.get_stats, 'strategies': per strategy the success count, the
\* failure count and their sum, counted in halves as failure_counts is
GetStats(sc, fc) ==
    [name \in DOMAIN sc |->
        [success |-> 2 * sc[name], failure |-> fc[name],
         total |-> 2 * sc[name] + fc[name]]]

\* C18: in get_stats the 'failure' of a strategy is the number of its attempts
\* that ended in an exception or a timeout, 'success' the number of its attempts
\* that produced a returned record, and 'total' their sum: an attempt that ends
\* adds one to the figure it belongs to and leaves the other as it is.
C18_StatsCountAttempts ==
    [][ \A r \in 1..MaxRequests, outcome \in Outcomes :
          StrategyDone(r, 1, outcome, TRUE) =>
             LET name == Attempted(r, 1)
                 old == GetStats(success_counts, failure_counts)[name]
                 new == GetStats(success_counts', failure_counts')[name]
                 failed == outcome.kind \in {"raise", "timeout"}
                 returned == AttemptReturned(r, 1)
             IN /\ new.failure = old.failure + (IF failed THEN 2 ELSE 0)
                /\ new.success = old.success + (IF returned THEN 2 ELSE 0)
                /\ new.total = new.success + new.failure ]_vars

\* ------------------------------------------------------------------ playwright
\* C19: the parse calls of a batch on the shared PlaywrightStrategy are
\* independent: between a call's _init_browser and its last use of the
\* browser, the browser is not closed by another call's _cleanup, and no
\* browser that was launched is left unclosed when the calls have ended.
C19_ConcurrentParsesIndependent ==
    /\ \A i \in DOMAIN parses :
          parses[i].pc \in {"new_page", "goto"} => browsers[parses[i].uses] = "open"
    /\ (\A i \in DOMAIN parses : parses[i].pc = "done") =>
          \A b \in DOMAIN browsers : browsers[b] = "closed"

\* ------------------------------------------------------------- download_batch
\* The increments of a counter made so far by the first n threads
RECURSIVE Increments(_)
Increments(n) == IF n = 0 THEN 0 ELSE workers[n].increments + Increments(n - 1)

\* C20: the threads of download_batch lose no counter update: success + failed
\* + skipped has grown by exactly the number of increments made, whatever the
\* interleaving of their read-modify-write steps.
C20_NoLostCounterUpdate ==
    stats.success + stats.failed + stats.skipped = Increments(Len(workers))

\* C21: after any sequence of download_from_url and download_batch calls,
\* total = success + failed + skipped, and success never exceeds total (the
\* success rate print_stats shows is at most 100%).
C21_TotalIsSumOfOutcomes ==
    AllDone => /\ stats.total = stats.success + stats.failed + stats.skipped
               /\ stats.success <= stats.total

\* The part of C21 on the success rate alone
C21_SuccessAtMostTotal == AllDone => stats.success <= stats.total

\* ------------------------------------------------------------ Redis failures
\* The call of the request that has just arrived
NewestCall == requests'[Len(requests')].calls[1]

\* A /parse request arrives and the cache read raises: parse_video goes on as
\* on a miss, the first strategy is awaited.
ReadFailureIsMiss ==
    \A body \in ParseBodies({"u1"}, {FALSE}) :
        (Parse(body, FALSE) /\ body # JsonNull) =>
           /\ NewestCall.pc = "running"
           /\ NewestCall.idx = 1
           /\ ~NewestCall.hit
           /\ requests'[Len(requests')].response = PyNone

\* An attempt yields a valid record and the cache write raises: parse_video
\* returns the record and /parse answers 200 with it.
WriteFailureStillReturns ==
    \A r \in 1..MaxRequests, outcome \in Outcomes :
        StrategyDone(r, 1, outcome, FALSE) =>
           /\ requests'[r].calls[1].pc = "returned"
           /\ requests'[r].calls[1].ret = outcome.value
           /\ requests'[r].response = Response(200, "true", outcome.value, PyNone, <<>>)
           /\ redis' = redis

\* On a Redis error get, set, delete, exists and clear answer None, False or 0
\* and change nothing.
CacheManagerNeverRaises ==
    \A key \in Urls :
        /\ CacheGet(key, FALSE).ret = PyNone
        /\ CacheSet(key, PyNone, CacheTTL, FALSE).redis = redis
        /\ CacheDelete(key, FALSE).ret = FALSE
        /\ CacheExists(key, FALSE) = FALSE
        /\ CacheCleared(FALSE) = 0
        /\ CacheClear(FALSE) = redis

\* C22: a failure of Redis never fails a parse. If the cache read raises,
\* parse_video goes on as on a miss (the first strategy is awaited); if the
\* cache write raises, parse_video still returns the record resolved; and
\* get, set, delete, exists and clear answer None, False or 0 on an error.
C22_RedisFailureNeverFailsParse ==
    /\ [][ReadFailureIsMiss /\ WriteFailureStillReturns]_vars
    /\ []CacheManagerNeverRaises

\* The second request found Redis down at the read, although the first had
\* cached its record, and down again at the write: it is answered 200 with the
\* record its strategy resolved.
C22_Witness ==
    /\ handled.parse = 2
    /\ cache_stats.sets = 1
    /\ cache_stats.hits = 0
    /\ cache_stats.misses = 1
    /\ RedisGet("u1") # PyNone
    /\ requests # <<>>
    /\ LET q == requests[Len(requests)]
       IN /\ q.calls # <<>>
          /\ ~q.calls[1].force_refresh
          /\ q.calls[1].pc = "returned"
          /\ q.response # PyNone
          /\ q.response.status = 200

\* ------------------------------------------------------------------ cache TTL
\* The time at which the entry of key was cached, as the entry records it
CachedAt(key) == JsonLoads(redis[key].text).cached_at

\* C23: a record cached by parse_video at time t is served from the cache only
\* until t + 3600 s: a call for the same URL that arrives later misses the
\* cache and runs the strategy chain again.
C23_CacheEntryExpires ==
    [][ \A body \in ParseBodies({"u1"}, {FALSE}) :
          (Parse(body, TRUE) /\ body # JsonNull /\ body.url = "u1"
             /\ redis["u1"] # PyNone) =>
                /\ NewestCall.hit => now < CachedAt("u1") + 3600
                /\ now >= CachedAt("u1") + 3600 =>
                      /\ NewestCall.pc = "running"
                      /\ NewestCall.idx = 1
                      /\ cache_stats'.misses = cache_stats.misses + 1 ]_vars

\* A call that asked for no refresh is running the chain, the entry cached for
\* its URL being 3600 s old.
C23_Witness ==
    /\ requests # <<>>
    /\ requests[Len(requests)].calls # <<>>
    /\ LET c == requests[Len(requests)].calls[1]
       IN /\ c.pc = "running"
          /\ ~c.force_refresh
          /\ redis[c.url] # PyNone
          /\ now = CachedAt(c.url) + CacheTTL

\* -------------------------------------------------------------- score bounds
\* The place of strategy name in an order
Place(order, name) == CHOOSE i \in 1..Len(order) : order[i] = name

\* C24: each strategy's failure count is >= 0 and its score lies between
\* 0.5 * base_weight and base_weight; hence 'requests' (0.4) is never ordered
\* before 'api_with_signature' (1.0) in a parse_video call, nor attempted
\* before it.
C24_ScoreBounds ==
    /\ \A name \in StrategyNames :
          LET score == Score(name, success_counts, failure_counts)
          IN /\ failure_counts[name] >= 0
             /\ ScoreGE(score, [num |-> BaseWeight10(name), den |-> 20])
             /\ ScoreGE([num |-> BaseWeight10(name), den |-> 10], score)
    /\ \A r \in DOMAIN requests : \A k \in DOMAIN requests[r].calls :
          LET c == requests[r].calls[k]
          IN /\ c.sorted # <<>> =>
                   Place(c.sorted, "api_with_signature") < Place(c.sorted, "requests")
             /\ \A i \in DOMAIN c.executed :
                   c.executed[i] = "requests" =>
                      \E j \in 1..(i - 1) : c.executed[j] = "api_with_signature"

\* A call has ordered the strategies while 'api_with_signature' had only
\* failures (score 0.5) and 'requests' only successes (score 0.4), and has
\* come to attempt 'requests'.
C24_Witness ==
    /\ success_counts["api_with_signature"] = 0
    /\ failure_counts["api_with_signature"] >= 2
    /\ success_counts["requests"] > 0
    /\ failure_counts["requests"] = 0
    /\ \E r \in DOMAIN requests :
          /\ requests[r].calls # <<>>
          /\ requests[r].calls[1].pc = "running"
          /\ requests[r].calls[1].sorted[requests[r].calls[1].idx] = "requests"

\* ------------------------------------------------------------ metrics counters
\* A /parse request arrives: its call either returns the cached entry, and
\* counts a cache hit, or awaits a strategy, and counts nothing yet.
HitCountedAtArrival ==
    \A body \in ParseBodies(Urls, {FALSE}) :
        (Parse(body, TRUE) /\ body # JsonNull /\ body.url \in Urls) =>
           IF NewestCall.pc = "returned"
           THEN /\ NewestCall.hit
                /\ counters' = [counters EXCEPT !.cache_hits = @ + 1]
           ELSE /\ NewestCall.pc = "running"
                /\ counters' = counters

\* An attempt ends: the call returns its record and counts a success, raises
\* 'All strategies failed' and counts a failure, or goes on and counts nothing.
OutcomeCountedAtEnd ==
    \A r \in 1..MaxRequests, outcome \in Outcomes :
        StrategyDone(r, 1, outcome, TRUE) =>
           CASE requests'[r].calls[1].pc = "returned" ->
                   counters' = [counters EXCEPT !.total_success = @ + 1]
             [] requests'[r].calls[1].pc = "raised" ->
                   /\ requests'[r].calls[1].ret[1] = "All strategies failed"
                   /\ counters' = [counters EXCEPT !.total_failure = @ + 1]
             [] OTHER -> counters' = counters

\* C25: a parse_video call that completes increments exactly one of the
\* counters cache_hits, total_success and total_failure: cache_hits when it
\* returns a cached entry, total_success when it returns a strategy's record,
\* total_failure when it raises 'All strategies failed'; until it completes
\* it increments none.
C25_OneCounterPerCall == [][HitCountedAtArrival /\ OutcomeCountedAtEnd]_vars

\* One call has raised after the last strategy failed, another has returned a
\* strategy's record: one failure and one success are counted.
C25_Witness ==
    /\ Idle
    /\ handled.parse = 2
    /\ counters.total_failure = 1
    /\ counters.total_success = 1
    /\ counters.cache_hits = 0

\* One call has returned a strategy's record and the next the cached entry.
C25_CacheHitCounted ==
    /\ Idle
    /\ counters.total_success = 1
    /\ counters.cache_hits = 1

\* ------------------------------------------------------------------ unblocking
\* The block of listed proxy q has run out
BlockRunOut(q) ==
    /\ q \in SeqToSet(proxies)
    /\ proxy_stats[q].blocked
    /\ now >= proxy_stats[q].block_until

CooledDown(q) == now - proxy_stats[q].last_used >= ProxyCooldown

\* An availability check is made (by get_proxy or by get_stats): the blocks
\* that have run out are lifted, and get_proxy returns a proxy if one of them
\* has cooled down, that very proxy if it is the only one listed.
BlockLiftedByCheck ==
    \A q \in ProxyPool :
        (BlockRunOut(q) /\ (ProxyGetStats \/ (ProxyCallMade /\ LastProxyCall.op = "get_proxy")))
           => /\ ~proxy_stats'[q].blocked
              /\ proxy_stats'[q].block_until = 0
              /\ (ProxyCallMade /\ CooledDown(q)) =>
                    /\ LastProxyCall.proxy # None
                    /\ Len(proxies) = 1 => LastProxyCall.proxy = q

\* A proxy whose block has run out and that has cooled down is in the list of
\* available proxies and can be the one get_proxy returns.
SelectableOnceBlockRunOut ==
    \A q \in ProxyPool :
        (BlockRunOut(q) /\ CooledDown(q)) =>
           /\ q \in SeqToSet(AvailableProxies(proxy_stats))
           /\ \E got \in GetProxy("random") : got.proxy = q

\* C26: a blocked proxy is blocked only for a time: once the clock has passed
\* block_until, the next availability check clears its blocked flag and
\* get_proxy can select it again (subject to the cooldown of 1 s), provided it
\* is still in the list.
C26_BlockedProxyComesBack ==
    /\ [][BlockLiftedByCheck]_vars
    /\ []SelectableOnceBlockRunOut

\* A proxy that three failures had blocked was returned by get_proxy once its
\* block had run out, and is no longer flagged.
C26_Witness ==
    \E i, k \in DOMAIN proxy_log :
        /\ i < k
        /\ proxy_log[i].op = "mark_failure"
        /\ proxy_log[k].op = "get_proxy"
        /\ proxy_log[k].proxy = proxy_log[i].proxy
        /\ proxy_log[k].at >= proxy_log[i].at + BlockDuration
        /\ ConsecutiveFailures(SubSeq(proxy_log, 1, i), proxy_log[i].proxy) = 3
        /\ ~proxy_stats[proxy_log[i].proxy].blocked

\* ----------------------------------------------------------------- round-robin
\* Entry i of the history is a get_proxy that returned proxy q
Returned(i, q) == proxy_log[i].op = "get_proxy" /\ proxy_log[i].proxy = q

\* C27: with the 'round-robin' rotation and a fixed list of unblocked proxies,
\* get_proxy rotates through the proxies: none is returned a second time
\* before every other proxy of the list has been returned once, whatever the
\* timing of the calls.
C27_RoundRobinRotates ==
    \A q \in SeqToSet(proxies) : \A i, j \in DOMAIN proxy_log :
        (i < j /\ Returned(i, q) /\ Returned(j, q)) =>
           \A other \in SeqToSet(proxies) \ {q} :
              \E k \in (i + 1)..(j - 1) : Returned(k, other)

\* The same for lists of at most two proxies
C27_RoundRobinAlternates == Len(proxies) <= 2 => C27_RoundRobinRotates

\* -------------------------------------------------------- EnhancedAPIStrategy
\* The download calls that are over, whichever way they ended
Over == {i \in DOMAIN tasks : tasks[i].ended # "no"}

\* C28: download sets the task status to PROCESSING on entry and, on every
\* path including exceptions, the call ends with the status COMPLETED if and
\* only if the DownloadResult has success true and FAILED otherwise: the task
\* is never left in PROCESSING, and _cleanup has run when the call is over.
C28_StatusSettledOnEveryPath ==
    \A i \in DOMAIN tasks :
        /\ i \notin Over => tasks[i].status = "PROCESSING"
        /\ i \in Over =>
              /\ tasks[i].status = (IF tasks[i].result.success
                                    THEN "COMPLETED" ELSE "FAILED")
              /\ tasks[i].cleaned

\* The same for the calls that return, with a result or after an Exception
C28_StatusSettledOnReturn ==
    \A i \in DOMAIN tasks :
        /\ i \notin Over => tasks[i].status = "PROCESSING"
        /\ tasks[i].ended = "returned" =>
              /\ tasks[i].status = (IF tasks[i].result.success
                                    THEN "COMPLETED" ELSE "FAILED")
              /\ tasks[i].cleaned
        /\ i \in Over => tasks[i].cleaned

\* The order in which the endpoints are to be tried: detail, fallback, web,
\* share, post, search
ListedOrder ==
    <<"_try_detail_api", "_try_fallback_apis", "_try_web_api",
      "_try_share_api", "_try_post_api", "_try_search_api">>

YieldedNothing(t, k) == t.outcomes[k] \in {"none", "raises"}

\* the methods are called in the listed order, each after the ones before it
\* yielded nothing
CalledInOrder(t) ==
    /\ Len(t.called) <= Len(ListedOrder)
    /\ t.called = SubSeq(ListedOrder, 1, Len(t.called))
    /\ Len(t.outcomes) <= Len(t.called)
    /\ \A k \in 1..(Len(t.called) - 1) :
          k \in DOMAIN t.outcomes /\ YieldedNothing(t, k)

\* a method that raised or returned no data is followed by the next one
FollowedByNext(t) ==
    \A k \in DOMAIN t.outcomes :
        (YieldedNothing(t, k) /\ k < Len(ListedOrder)) => Len(t.called) > k

\* the first method that returns data ends the chain, and the result of
\* processing its data is the result of the call
DataEndsChain(t) ==
    \A k \in DOMAIN t.outcomes :
        t.outcomes[k] = "data" =>
           /\ Len(t.called) = k
           /\ t.ended = "returned"
           /\ t.result = t.processed

\* the failure AllFailed is returned only after all methods yielded nothing
AllFailedIsLast(t) ==
    t.result.error_message = AllFailed =>
       /\ t.called = ListedOrder
       /\ Len(t.outcomes) = Len(ListedOrder)
       /\ \A k \in DOMAIN t.outcomes : YieldedNothing(t, k)

\* without a content ID no endpoint is called
NoCallWithoutID(t) ==
    t.called # <<>> => t.aweme_id # None

\* C29: _download_video tries its endpoint methods in the listed order
\* (detail, fallback, web, share, post, search): a method that raises or
\* returns no data is followed by the next one, the first method that returns
\* data ends the chain and its processing result is the result of the call,
\* the failure AllFailed is returned only after all methods yielded nothing,
\* and no endpoint is called when no content ID can be extracted.
C29_EndpointChain ==
    \A i \in DOMAIN tasks :
        /\ CalledInOrder(tasks[i])
        /\ FollowedByNext(tasks[i])
        /\ DataEndsChain(tasks[i])
        /\ AllFailedIsLast(tasks[i])
        /\ NoCallWithoutID(tasks[i])

\* a call in which two methods yielded nothing and the third returned data
C29_Witness ==
    \E i \in DOMAIN tasks :
        /\ tasks[i].outcomes = <<"raises", "none", "data">>
        /\ tasks[i].ended = "returned"
        /\ tasks[i].result.success

\* a call that found no ID, and one in which every method yielded nothing
C29_NoIDWitness ==
    \E i \in DOMAIN tasks :
        tasks[i].result.error_message = NoID /\ tasks[i].called = <<>>

C29_AllFailedWitness ==
    \E i \in DOMAIN tasks : tasks[i].result.error_message = AllFailed

====
